---- MODULE Spec2Model ----
(***************************************************************************)
(* Verification model of the mastering-golang teaching snippets.           *)
(*                                                                         *)
(* Each demonstration is an independent piece of code, so the module holds *)
(* one specification per demonstration:                                    *)
(*   SpecChan / FairSpecChan  loops.RangeOverChannel (producer goroutine,  *)
(*                            buffered channel, range loop in the caller)  *)
(*   SpecClosure              functions.Closure and the counters it makes  *)
(*   SpecCalc                 functions.CalculateWithError                 *)
(*   SpecDiv                  functions.FunctionWithMultipleReturns        *)
(*   SpecFact / FairSpecFact  functions.RecursiveFactorial                 *)
(* A specification runs its own demonstration and leaves the variables of  *)
(* the others at rest.                                                     *)
(***************************************************************************)
EXTENDS Integers, Sequences, FiniteSets, TLC

VARIABLES
    \* ---- loops.RangeOverChannel ----
    mpc,        \* position of the calling goroutine inside RangeOverChannel
    ppc,        \* position of the producer goroutine (go func() {...})
    numbers,    \* the channel: [buf: queued values, closed: BOOLEAN]
    i,          \* the producer's loop variable
    num,        \* the range loop's variable
    received,   \* history: the values the range loop has received, in order
    out,        \* history: the lines written to standard output, in order
    \* ---- functions.Closure ----
    cells,      \* the captured `count` variables, one per call of Closure()
    ncalls,     \* history: how many times each returned function was called
    lastRet,    \* history: what each returned function returned last
    \* ---- functions.CalculateWithError ----
    argA,       \* argument a
    argB,       \* argument b
    argOp,      \* argument operation
    cres,       \* the call's outcome, once it has returned or panicked
    cpc,        \* "call" before the call, "returned" after it
    \* ---- functions.FunctionWithMultipleReturns ----
    dividend,   \* argument dividend
    divisor,    \* argument divisor
    dres,       \* the call's outcome
    dpc,        \* "call" before the call, "returned" after it
    \* ---- functions.RecursiveFactorial ----
    fn,         \* the argument of the outermost call
    stack,      \* the n of every active call, innermost last
    fret,       \* the value returned by the call that returned last
    fcalls,     \* history: the recursive calls made so far
    fpc,        \* "call", "body", "ret" or "done"
    \* ---- functions.Calculator ----
    calc,       \* the caller's Calculator: [LastResult: int]
    kinit,      \* history: the LastResult the Calculator was made with
    kret,       \* what the last method call returned
    klast,      \* history: the last method call, [m, a, b]
    kstored,    \* history: the arguments of the most recent AddAndStore
    ksteps,     \* history: the number of method calls made
    \* ---- functions.DeferredExecution ----
    filename,   \* argument filename
    deferred,   \* the calls deferred so far, last deferred last
    derr,       \* the return value: "unset", "nil" or "error"
    dout,       \* history: the lines written to standard output, in order
    xpc,        \* position inside DeferredExecution
    \* ---- functions.HigherOrderFunction ----
    hnumbers,   \* argument numbers: the elements of the caller's slice
    hinput,     \* history: the elements of numbers at the call
    hop,        \* argument operation
    results,    \* the slice made by make([]int, len(numbers))
    hidx,       \* the range loop's position (0-based index i)
    hpc,        \* "call", "loop" or "returned"
    \* ---- functions.DemonstrateScope ----
    GlobalCounter,  \* the package-level counter
    globalMessage,  \* the package-level string
    localMessage,   \* the local globalMessage declared inside DemonstrateScope
    loopI,      \* the loop variable of DemonstrateScope's for loop
    spc,        \* position inside DemonstrateScope, "idle" between calls
    scalls,     \* history: the number of completed DemonstrateScope calls
    \* ---- collections.ArrayBasics / ArrayOperations ----
    primes,     \* ArrayBasics: primes
    copyOfPrimes,   \* ArrayBasics: copyOfPrimes
    bigArray,   \* ArrayOperations: bigArray
    arr,        \* the parameter of the helper being executed
    apc,        \* position in ArrayBasics / ArrayOperations
    \* ---- cmd/03-loops main ----
    rpc,        \* position in main: an index into Program, or past its end
    rcall,      \* the loops function main is inside, "none" between calls
    rtrace,     \* history: calls begun and returned, in order
    lpc,        \* which loop of the function (or of main) is executing
    rloop,      \* position inside that loop
    counter,    \* the loop's variable (the outer loop's, when nested)
    inner,      \* the inner loop's variable
    sum,        \* BreakAndContinue: sum
    \* ---- basics.ProcessValue ----
    pvalue,     \* argument value
    pret,       \* the string returned
    vpc,        \* "call" or "returned"
    \* ---- cmd/04-collections main: the simple cache ----
    cache,      \* the map: the set of keys and the value of each
    cacheOrder, \* the order slice
    evicted,    \* history: the keys the last addToCache call evicted
    lastAdd,    \* history: for each key, the number of its last addToCache call
    qcalls,     \* history: the number of addToCache calls made
    qbefore,    \* history: cacheOrder as the last addToCache call found it
    \* ---- collections.SliceOperations ----
    sheap,          \* the backing arrays allocated so far
    snumbers,       \* the slice numbers
    removed,        \* the slice removed
    inserted,       \* the slice inserted
    indexToRemove,  \* indexToRemove
    indexToInsert,  \* indexToInsert
    slpc            \* position in SliceOperations

chanVars == <<mpc, ppc, numbers, i, num, received, out>>
closureVars == <<cells, ncalls, lastRet>>
calcVars == <<argA, argB, argOp, cres, cpc>>
divVars == <<dividend, divisor, dres, dpc>>
factVars == <<fn, stack, fret, fcalls, fpc>>
calculatorVars == <<calc, kinit, kret, klast, kstored, ksteps>>
deferVars == <<filename, deferred, derr, dout, xpc>>
hofVars == <<hnumbers, hinput, hop, results, hidx, hpc>>
scopeVars == <<GlobalCounter, globalMessage, localMessage, loopI, spc, scalls>>
arrayVars == <<primes, copyOfPrimes, bigArray, arr, apc>>
runnerVars == <<rpc, rcall, rtrace, lpc, rloop, counter, inner, sum>>
pvVars == <<pvalue, pret, vpc>>
cacheVars == <<cache, cacheOrder, evicted, lastAdd, qcalls, qbefore>>
sliceVars ==
    <<sheap, snumbers, removed, inserted, indexToRemove, indexToInsert, slpc>>

\* The demonstrations of the functions package after RecursiveFactorial, and
\* those of the other packages.
laterVars ==
    <<calculatorVars, deferVars, hofVars, scopeVars, arrayVars, pvVars, cacheVars,
      sliceVars>>

vars ==
    <<chanVars, closureVars, calcVars, divVars, factVars, runnerVars, laterVars>>

(***************************************************************************)
(* loops.RangeOverChannel                                                  *)
(***************************************************************************)

\* make(chan int, 5): the channel's buffer capacity.
ChanCap == 5

\* for i := 1; i <= 5; i++ : the number of values the producer sends.
NumSends == 5

\* The value sent in iteration k: i * 10.
SentValue(k) == k * 10

\* A line on standard output: which Printf/Println wrote it and its %d argument.
Line(kind, v) == [k |-> kind, v |-> v]

\* make(chan int, 5): an open channel with an empty buffer.
MakeChan == [buf |-> <<>>, closed |-> FALSE]

ChanStart ==
    /\ mpc = "title"
    /\ ppc = "unborn"
    /\ numbers = MakeChan
    /\ i = 0
    /\ num = 0
    /\ received = <<>>
    /\ out = <<>>

\* RangeOverChannel touches nothing outside its own locals and the channel.
ChanFrame ==
    UNCHANGED <<closureVars, calcVars, divVars, factVars, runnerVars, laterVars>>

\* fmt.Println("Range over Channel:")
MainTitle ==
    /\ mpc = "title"
    /\ out' = Append(out, Line("Title", 0))
    /\ mpc' = "go"
    /\ UNCHANGED <<ppc, numbers, i, num, received>>
    /\ ChanFrame

\* go func() { ... }(): the producer goroutine becomes runnable, at i := 1.
MainGo ==
    /\ mpc = "go"
    /\ ppc' = "loop"
    /\ i' = 1
    /\ mpc' = "sleep"
    /\ UNCHANGED <<numbers, num, received, out>>
    /\ ChanFrame

\* time.Sleep(100 * time.Millisecond): the caller pauses. The pause orders
\* nothing between the goroutines: the scheduler may run the producer during
\* it, or not at all, so the caller may leave it at any point of the
\* producer's progress.
MainSleep ==
    /\ mpc = "sleep"
    /\ mpc' = "header"
    /\ UNCHANGED <<ppc, numbers, i, num, received, out>>
    /\ ChanFrame

\* fmt.Println("  Receiving values:")
MainHeader ==
    /\ mpc = "header"
    /\ out' = Append(out, Line("Receiving", 0))
    /\ mpc' = "range"
    /\ UNCHANGED <<ppc, numbers, i, num, received>>
    /\ ChanFrame

\* for num := range numbers, a value is available: receive the oldest one.
MainRecv ==
    /\ mpc = "range"
    /\ numbers.buf # <<>>
    /\ num' = Head(numbers.buf)
    /\ numbers' = [numbers EXCEPT !.buf = Tail(@)]
    /\ received' = Append(received, Head(numbers.buf))
    /\ mpc' = "print"
    /\ UNCHANGED <<ppc, i, out>>
    /\ ChanFrame

\* A range loop that ends as soon as it finds the buffer empty, closed or not.
MainRangeEndOnEmpty ==
    /\ mpc = "range"
    /\ numbers.buf = <<>>
    /\ mpc' = "footer"
    /\ UNCHANGED <<ppc, numbers, i, num, received, out>>
    /\ ChanFrame

\* for num := range numbers, the channel is closed and drained: the loop ends.
\* (On an open, empty channel the receive blocks: neither action is enabled.)
MainRangeEnd ==
    /\ mpc = "range"
    /\ numbers.buf = <<>>
    /\ numbers.closed
    /\ mpc' = "footer"
    /\ UNCHANGED <<ppc, numbers, i, num, received, out>>
    /\ ChanFrame

\* fmt.Printf("    Received: %d\n", num)
MainPrintReceived ==
    /\ mpc = "print"
    /\ out' = Append(out, Line("Received", num))
    /\ mpc' = "process"
    /\ UNCHANGED <<ppc, numbers, i, num, received>>
    /\ ChanFrame

\* time.Sleep(50 * time.Millisecond) // Simulate processing
MainProcess ==
    /\ mpc = "process"
    /\ mpc' = "range"
    /\ UNCHANGED <<ppc, numbers, i, num, received, out>>
    /\ ChanFrame

\* fmt.Println("  Channel closed, range loop ended"), then return.
MainFooter ==
    /\ mpc = "footer"
    /\ out' = Append(out, Line("Ended", 0))
    /\ mpc' = "done"
    /\ UNCHANGED <<ppc, numbers, i, num, received>>
    /\ ChanFrame

\* for i := 1; i <= 5; i++ : the loop condition.
ProdLoop ==
    /\ ppc = "loop"
    /\ ppc' = IF i <= NumSends THEN "send" ELSE "close"
    /\ UNCHANGED <<mpc, numbers, i, num, received, out>>
    /\ ChanFrame

\* A channel that hands out the newest value first: the value is queued in
\* front of the values already in the buffer.
ChanSendNewestFirst(ch, v) == [ch EXCEPT !.buf = <<v>> \o @]

\* The effect of a send on the channel that can proceed: the value is queued
\* behind the values already in the buffer.
ChanSend(ch, v) == [ch EXCEPT !.buf = Append(@, v)]

\* numbers <- i * 10 : blocks while the buffer is full; a send on a closed
\* channel panics.
ProdSend ==
    /\ ppc = "send"
    /\ \/ /\ numbers.closed
          /\ ppc' = "panic"
          /\ UNCHANGED numbers
       \/ /\ ~numbers.closed
          /\ Len(numbers.buf) < ChanCap
          /\ numbers' = ChanSend(numbers, SentValue(i))
          /\ ppc' = "sent"
    /\ UNCHANGED <<mpc, i, num, received, out>>
    /\ ChanFrame

\* fmt.Printf("  Sent: %d\n", i*10), then i++
ProdPrintSent ==
    /\ ppc = "sent"
    /\ out' = Append(out, Line("Sent", SentValue(i)))
    /\ i' = i + 1
    /\ ppc' = "loop"
    /\ UNCHANGED <<mpc, numbers, num, received>>
    /\ ChanFrame

\* A producer that forgets to close the channel.
ChanCloseForgotten(ch) == ch

\* The effect of close on an open channel.
ChanClose(ch) == [ch EXCEPT !.closed = TRUE]

\* close(numbers), the goroutine's last statement.
ProdClose ==
    /\ ppc = "close"
    /\ numbers' = ChanClose(numbers)
    /\ ppc' = "end"
    /\ UNCHANGED <<mpc, i, num, received, out>>
    /\ ChanFrame

Main ==
    \/ MainTitle
    \/ MainGo
    \/ MainSleep
    \/ MainHeader
    \/ MainRecv
    \/ MainRangeEnd
    \/ MainPrintReceived
    \/ MainProcess
    \/ MainFooter

Producer ==
    \/ ProdLoop
    \/ ProdSend
    \/ ProdPrintSent
    \/ ProdClose


(***************************************************************************)
(* functions.Closure                                                       *)
(***************************************************************************)

\* How many counters the model constructs, and how often it calls each.
MaxCounters == 3
MaxCalls == 4

ClosureStart == cells = <<>> /\ ncalls = <<>> /\ lastRet = <<>>

\* Closure(): count := 0 allocates a fresh variable, which the returned
\* function captures. The result is the store with that variable added; the
\* returned function is named by the variable's index.
Closure(store) == Append(store, 0)

\* A Closure() whose count lives at package level: every returned function
\* captures the same variable, the first one.
CounterSharedCount(store, c) ==
    [store |-> [store EXCEPT ![1] = @ + 1], ret |-> store[1] + 1]

\* The returned func() int, called on the counter that captured variable c:
\* count++ ; return count.
Counter(store, c) ==
    [store |-> [store EXCEPT ![c] = @ + 1], ret |-> store[c] + 1]

ClosureFrame ==
    UNCHANGED <<chanVars, calcVars, divVars, factVars, runnerVars, laterVars>>

\* counterN := Closure()
NewCounter ==
    /\ Len(cells) < MaxCounters
    /\ cells' = Closure(cells)
    /\ ncalls' = Append(ncalls, 0)
    /\ lastRet' = Append(lastRet, 0)
    /\ ClosureFrame

\* result := counterN(), for any counter constructed so far.
CallCounter ==
    /\ \E c \in 1..Len(cells) :
        /\ ncalls[c] < MaxCalls
        /\ cells' = Counter(cells, c).store
        /\ lastRet' = [lastRet EXCEPT ![c] = Counter(cells, c).ret]
        /\ ncalls' = [ncalls EXCEPT ![c] = @ + 1]
    /\ ClosureFrame

(***************************************************************************)
(* Go's int arithmetic                                                     *)
(*                                                                         *)
(* int is a two's-complement integer of implementation-specific width (32  *)
(* or 64 bits). The model keeps the width as IntBits and makes it small    *)
(* enough for the wraparound cases to be reached.                          *)
(***************************************************************************)

IntBits == 8

RECURSIVE Pow2(_)
Pow2(n) == IF n = 0 THEN 1 ELSE 2 * Pow2(n - 1)

MinInt == -Pow2(IntBits - 1)
MaxInt == Pow2(IntBits - 1) - 1

\* The int that holds the low IntBits bits of the mathematical integer x.
Wrap(x) == ((x - MinInt) % Pow2(IntBits)) + MinInt

Abs(x) == IF x < 0 THEN -x ELSE x

\* x + y, x - y, x * y on ints: the result wraps around on overflow.
IntAdd(x, y) == Wrap(x + y)
IntSub(x, y) == Wrap(x - y)
IntMul(x, y) == Wrap(x * y)

\* x / y on ints, y # 0: the quotient is truncated toward zero; MinInt / -1
\* overflows and wraps around to MinInt.
IntQuo(x, y) ==
    LET q == Abs(x) \div Abs(y)
    IN  Wrap(IF (x < 0) = (y < 0) THEN q ELSE -q)

\* x % y on ints, y # 0: x - (x / y) * y, which has the sign of x.
IntRem(x, y) == IntSub(x, IntMul(IntQuo(x, y), y))

\* The arguments the model calls the functions with: a range around zero that
\* holds the tests' values, and the values at both ends of int.
ArgRange == 17
Ints == ((-ArgRange)..ArgRange) \cup {MinInt, MinInt + 1, MaxInt - 1, MaxInt}

(***************************************************************************)
(* functions.CalculateWithError                                            *)
(***************************************************************************)

\* The operation strings the model calls CalculateWithError with: the four it
\* knows, and strings near them.
Operations ==
    {"add", "subtract", "multiply", "divide", "modulo", "", "Add", "divide "}

\* A nil error, and the error fmt.Errorf makes from a message.
NilError == [isNil |-> TRUE, msg |-> ""]
Errorf(msg) == [isNil |-> FALSE, msg |-> msg]

\* fmt.Errorf("unknown operation: %s", operation): %s writes the string
\* operand as it is.
ErrorfS(prefix, operand) == Errorf(prefix \o operand)

\* The outcomes of a call: it returns (result, err), or it panics.
Return(result, err) == [panic |-> FALSE, result |-> result, err |-> err]
Panic(why) == [panic |-> TRUE, result |-> 0, err |-> Errorf(why)]

\* result = a / b; return result, nil. An integer division by zero is a
\* run-time panic.
Divide(a, b) ==
    IF b = 0
    THEN Panic("runtime error: integer divide by zero")
    ELSE Return(IntQuo(a, b), NilError)

\* A "divide" case without the b == 0 test.
DivideCaseUnchecked(a, b) == Divide(a, b)

\* case "divide": if b == 0 { return 0, fmt.Errorf("division by zero") };
\* result = a / b
DivideCase(a, b) ==
    IF b = 0 THEN Return(0, Errorf("division by zero")) ELSE Divide(a, b)

\* A switch without its default case: an unknown operation falls out of it
\* with result still zero, which is returned with a nil error.
DefaultCaseMissing(operation) == Return(0, NilError)

\* default: return 0, fmt.Errorf("unknown operation: %s", operation)
DefaultCase(operation) == Return(0, ErrorfS("unknown operation: ", operation))

\* A "subtract" case that adds.
SubtractCaseAdds(a, b) == Return(IntAdd(a, b), NilError)

\* case "subtract": result = a - b
SubtractCase(a, b) == Return(IntSub(a, b), NilError)

\* func CalculateWithError(a, b int, operation string) (int, error)
CalculateWithError(a, b, operation) ==
    CASE operation = "add" -> Return(IntAdd(a, b), NilError)
      [] operation = "subtract" -> SubtractCase(a, b)
      [] operation = "multiply" -> Return(IntMul(a, b), NilError)
      [] operation = "divide" -> DivideCase(a, b)
      [] OTHER -> DefaultCase(operation)

CalcStart ==
    /\ argA \in Ints
    /\ argB \in Ints
    /\ argOp \in Operations
    /\ cres = "none"
    /\ cpc = "call"

CalcFrame ==
    UNCHANGED <<chanVars, closureVars, divVars, factVars, runnerVars, laterVars>>

\* result, err := CalculateWithError(a, b, operation)
CalcCall ==
    /\ cpc = "call"
    /\ cres' = CalculateWithError(argA, argB, argOp)
    /\ cpc' = "returned"
    /\ UNCHANGED <<argA, argB, argOp>>
    /\ CalcFrame

(***************************************************************************)
(* functions.FunctionWithMultipleReturns                                   *)
(***************************************************************************)

\* The outcomes of a call: it returns (quotient, remainder), or it panics.
Return2(quotient, remainder) ==
    [panic |-> FALSE, quotient |-> quotient, remainder |-> remainder]
Panic2 == [panic |-> TRUE, quotient |-> 0, remainder |-> 0]

\* quotient = dividend / divisor; remainder = dividend % divisor; return.
\* An integer division by zero is a run-time panic.
DivMod(x, y) ==
    IF y = 0 THEN Panic2 ELSE Return2(IntQuo(x, y), IntRem(x, y))

\* A FunctionWithMultipleReturns without the divisor == 0 test.
DivModUnchecked(x, y) == DivMod(x, y)

\* A FunctionWithMultipleReturns with floored division: the quotient is
\* rounded toward minus infinity and the remainder has the divisor's sign.
DivModFloored(x, y) ==
    LET q == IF y > 0 THEN x \div y ELSE (-x) \div (-y)
    IN  IF y = 0 THEN Return2(0, 0) ELSE Return2(Wrap(q), Wrap(x - q * y))

\* func FunctionWithMultipleReturns(dividend, divisor int) (quotient, remainder int)
FunctionWithMultipleReturns(x, y) ==
    IF y = 0 THEN Return2(0, 0) ELSE DivMod(x, y)

DivStart ==
    /\ dividend \in Ints
    /\ divisor \in Ints
    /\ dres = "none"
    /\ dpc = "call"

DivFrame ==
    UNCHANGED <<chanVars, closureVars, calcVars, factVars, runnerVars, laterVars>>

\* quotient, remainder := FunctionWithMultipleReturns(dividend, divisor)
DivCall ==
    /\ dpc = "call"
    /\ dres' = FunctionWithMultipleReturns(dividend, divisor)
    /\ dpc' = "returned"
    /\ UNCHANGED <<dividend, divisor>>
    /\ DivFrame

(***************************************************************************)
(* functions.RecursiveFactorial                                            *)
(***************************************************************************)

\* The arguments the model calls RecursiveFactorial with: -NegN .. MaxN.
\* (Up to 12! the results fit a 32-bit int, so no product wraps around.)
NegN == 3
MaxN == 10

\* A base case that lets 1 through: if n <= 0 { return 1 }.
BaseCaseZeroOnly(n) == n <= 0

\* if n <= 1 { return 1 }: the test that stops the recursion.
BaseCase(n) == n <= 1

\* return n * RecursiveFactorial(n-1): the product made when the inner call
\* has returned r.
Combine(n, r) == n * r

FactStart ==
    /\ fn \in (-NegN)..MaxN
    /\ stack = <<>>
    /\ fret = 0
    /\ fcalls = 0
    /\ fpc = "call"

FactFrame ==
    UNCHANGED <<chanVars, closureVars, calcVars, divVars, runnerVars, laterVars>>

Top == stack[Len(stack)]
Pop == SubSeq(stack, 1, Len(stack) - 1)

\* result := RecursiveFactorial(n): the outermost call is entered.
FactEnter ==
    /\ fpc = "call"
    /\ stack' = <<fn>>
    /\ fpc' = "body"
    /\ UNCHANGED <<fn, fret, fcalls>>
    /\ FactFrame

\* The innermost call finds n <= 1 and returns 1.
FactBase ==
    /\ fpc = "body"
    /\ BaseCase(Top)
    /\ fret' = 1
    /\ stack' = Pop
    /\ fpc' = "ret"
    /\ UNCHANGED <<fn, fcalls>>
    /\ FactFrame

\* The innermost call finds n > 1 and calls RecursiveFactorial(n-1).
FactRecurse ==
    /\ fpc = "body"
    /\ ~BaseCase(Top)
    /\ stack' = Append(stack, Top - 1)
    /\ fcalls' = fcalls + 1
    /\ UNCHANGED <<fn, fret, fpc>>
    /\ FactFrame

\* A call has returned to the call that made it, which multiplies and returns.
FactReturn ==
    /\ fpc = "ret"
    /\ stack # <<>>
    /\ fret' = Combine(Top, fret)
    /\ stack' = Pop
    /\ UNCHANGED <<fn, fcalls, fpc>>
    /\ FactFrame

\* The outermost call has returned to its caller.
FactDone ==
    /\ fpc = "ret"
    /\ stack = <<>>
    /\ fpc' = "done"
    /\ UNCHANGED <<fn, stack, fret, fcalls>>
    /\ FactFrame

(***************************************************************************)
(* functions.Calculator                                                    *)
(***************************************************************************)

\* How many method calls the model makes on one Calculator.
MaxMethodCalls == 2

\* The arguments a and b of the method calls, and the LastResult the
\* Calculator is made with: the tests' values and values that overflow.
MethodArgsA == {-1, 5, 10, MaxInt}
MethodArgsB == {MinInt, 1, 3, 7}
InitialResults == {0, 9, MinInt}

\* The Calculator struct.
Calculator(LastResult) == [LastResult |-> LastResult]

\* The body shared by Add and AddAndStore, run on the receiver c:
\* result := a + b; c.LastResult = result; return result.
AddBody(c, a, b) ==
    [c |-> [c EXCEPT !.LastResult = IntAdd(a, b)], ret |-> IntAdd(a, b)]

\* A value receiver declared as a pointer receiver: the method works on the
\* caller's struct.
ValueReceiverAliased(caller, callee) == callee

\* The caller's struct after a method with a value receiver (c Calculator),
\* whose copy of the struct ended as callee: the copy is dropped.
ValueReceiver(caller, callee) == caller

\* A pointer receiver declared as a value receiver: the method works on a copy.
PointerReceiverCopied(caller, callee) == caller

\* The caller's struct after a method with a pointer receiver (c *Calculator),
\* which left the struct c points to as callee.
PointerReceiver(caller, callee) == callee

CalculatorStart ==
    /\ kinit \in InitialResults
    /\ calc = Calculator(kinit)
    /\ kret = 0
    /\ klast = [m |-> "none", a |-> 0, b |-> 0]
    /\ kstored = [set |-> FALSE, a |-> 0, b |-> 0]
    /\ ksteps = 0

CalculatorFrame ==
    UNCHANGED <<chanVars, closureVars, calcVars, divVars, factVars, runnerVars,
                sliceVars, deferVars, hofVars, scopeVars, arrayVars, pvVars, cacheVars>>

\* func (c Calculator) Add(a, b int) int, called as calc.Add(a, b)
CalculatorAdd ==
    /\ ksteps < MaxMethodCalls
    /\ \E a \in MethodArgsA, b \in MethodArgsB :
        /\ calc' = ValueReceiver(calc, AddBody(calc, a, b).c)
        /\ kret' = AddBody(calc, a, b).ret
        /\ klast' = [m |-> "Add", a |-> a, b |-> b]
    /\ ksteps' = ksteps + 1
    /\ UNCHANGED <<kinit, kstored>>
    /\ CalculatorFrame

\* func (c *Calculator) AddAndStore(a, b int) int, called as
\* calc.AddAndStore(a, b)
CalculatorAddAndStore ==
    /\ ksteps < MaxMethodCalls
    /\ \E a \in MethodArgsA, b \in MethodArgsB :
        /\ calc' = PointerReceiver(calc, AddBody(calc, a, b).c)
        /\ kret' = AddBody(calc, a, b).ret
        /\ klast' = [m |-> "AddAndStore", a |-> a, b |-> b]
        /\ kstored' = [set |-> TRUE, a |-> a, b |-> b]
    /\ ksteps' = ksteps + 1
    /\ UNCHANGED kinit
    /\ CalculatorFrame

\* func (c Calculator) GetLastResult() int, called as calc.GetLastResult()
CalculatorGetLastResult ==
    /\ ksteps < MaxMethodCalls + 1
    /\ klast.m # "GetLastResult"
    /\ calc' = ValueReceiver(calc, calc)
    /\ kret' = calc.LastResult
    /\ klast' = [m |-> "GetLastResult", a |-> 0, b |-> 0]
    /\ ksteps' = ksteps + 1
    /\ UNCHANGED <<kinit, kstored>>
    /\ CalculatorFrame

(***************************************************************************)
(* functions.DeferredExecution                                             *)
(***************************************************************************)

\* The filenames the model calls DeferredExecution with: the tests' four and
\* names that hold "error" elsewhere, in part, or in another case.
Filenames ==
    {"test.txt", "data.txt", "error.txt", "error_log.txt", "log_error",
     "an_error.txt", "terror", "Error.txt", "ERROR.txt", "err.txt", "erro",
     "rror.txt", "e_r_r_o_r", "errorerror", ""}

\* strings.HasPrefix(s, substr): substr is at the start of s.
StringsHasPrefix(s, substr) ==
    Len(substr) <= Len(s) /\ SubSeq(s, 1, Len(substr)) = substr

\* strings.Contains(s, substr): substr is within s.
StringsContains(s, substr) ==
    \E k \in 1..(Len(s) - Len(substr) + 1) :
        SubSeq(s, k, k + Len(substr) - 1) = substr

\* Deferred calls run first registered, first run.
NextDeferredOldest(ds) == 1

\* The deferred call that runs next when the function returns: the one
\* deferred last.
NextDeferred(ds) == Len(ds)

\* ds without its k-th element.
Without(ds, k) == SubSeq(ds, 1, k - 1) \o SubSeq(ds, k + 1, Len(ds))

DeferStart ==
    /\ filename \in Filenames
    /\ deferred = <<>>
    /\ derr = "unset"
    /\ dout = <<>>
    /\ xpc = "open"

DeferFrame ==
    UNCHANGED <<chanVars, closureVars, calcVars, divVars, factVars, runnerVars,
                sliceVars, calculatorVars, hofVars, scopeVars, arrayVars, pvVars, cacheVars>>

\* fmt.Printf("Opening file: %s\n", filename)
DeferOpen ==
    /\ xpc = "open"
    /\ dout' = Append(dout, "Opening file: " \o filename)
    /\ xpc' = "defer3"
    /\ UNCHANGED <<filename, deferred, derr>>
    /\ DeferFrame

\* defer fmt.Println("3. Final cleanup")
DeferFinalCleanup ==
    /\ xpc = "defer3"
    /\ deferred' = Append(deferred, "3. Final cleanup")
    /\ xpc' = "defer2"
    /\ UNCHANGED <<filename, derr, dout>>
    /\ DeferFrame

\* defer fmt.Println("2. Closing file")
DeferClosingFile ==
    /\ xpc = "defer2"
    /\ deferred' = Append(deferred, "2. Closing file")
    /\ xpc' = "defer1"
    /\ UNCHANGED <<filename, derr, dout>>
    /\ DeferFrame

\* defer fmt.Println("1. First deferred call")
DeferFirstCall ==
    /\ xpc = "defer1"
    /\ deferred' = Append(deferred, "1. First deferred call")
    /\ xpc' = "processing"
    /\ UNCHANGED <<filename, derr, dout>>
    /\ DeferFrame

\* fmt.Println("Processing file...")
DeferProcessing ==
    /\ xpc = "processing"
    /\ dout' = Append(dout, "Processing file...")
    /\ xpc' = "check"
    /\ UNCHANGED <<filename, deferred, derr>>
    /\ DeferFrame

\* if strings.Contains(filename, "error") { return fmt.Errorf(...) }
DeferCheck ==
    /\ xpc = "check"
    /\ IF StringsContains(filename, "error")
       THEN derr' = "error" /\ xpc' = "unwind"
       ELSE derr' = derr /\ xpc' = "success"
    /\ UNCHANGED <<filename, deferred, dout>>
    /\ DeferFrame

\* fmt.Println("File processed successfully"); return nil
DeferSuccess ==
    /\ xpc = "success"
    /\ dout' = Append(dout, "File processed successfully")
    /\ derr' = "nil"
    /\ xpc' = "unwind"
    /\ UNCHANGED <<filename, deferred>>
    /\ DeferFrame

\* The function is returning: the next deferred fmt.Println runs.
DeferRun ==
    /\ xpc = "unwind"
    /\ deferred # <<>>
    /\ dout' = Append(dout, deferred[NextDeferred(deferred)])
    /\ deferred' = Without(deferred, NextDeferred(deferred))
    /\ UNCHANGED <<filename, derr, xpc>>
    /\ DeferFrame

\* Every deferred call has run: the return value reaches the caller.
DeferReturn ==
    /\ xpc = "unwind"
    /\ deferred = <<>>
    /\ xpc' = "returned"
    /\ UNCHANGED <<filename, deferred, derr, dout>>
    /\ DeferFrame

(***************************************************************************)
(* functions.HigherOrderFunction                                           *)
(***************************************************************************)

\* The longest slice the model builds from HofValues.
HofMaxLen == 3

HofValues == {-2, 0, 1, 3}

\* The slices the model passes: every slice of up to HofMaxLen values, the
\* tests' slices, and one that holds both ends of int.
HofInputs ==
    UNION {[1..n -> HofValues] : n \in 0..HofMaxLen}
    \cup {<<1, 2, 3, 4, 5>>, <<0, 1, 2, 3, 4>>, <<1, -2, 3, -4, 5>>,
          <<MaxInt, MinInt>>}

\* The operations the tests pass.
HofOperations == {"double", "square", "add one", "negative"}

\* operation(n) for the tests' function literals.
Apply(op, n) ==
    CASE op = "double" -> IntMul(n, 2)
      [] op = "square" -> IntMul(n, n)
      [] op = "add one" -> IntAdd(n, 1)
      [] op = "negative" -> IntSub(0, n)

\* results := make([]int, len(numbers))
MakeInts(n) == [k \in 1..n |-> 0]

\* A loop body that stores the result in numbers as well, as it would if
\* results shared numbers' backing array.
LoopBodyInPlace(nums, res, k, op) ==
    [numbers |-> [nums EXCEPT ![k] = Apply(op, nums[k])],
     results |-> [res EXCEPT ![k] = Apply(op, nums[k])]]

\* One iteration of for i, num := range numbers { results[i] = operation(num) },
\* at the k-th element.
LoopBody(nums, res, k, op) ==
    [numbers |-> nums, results |-> [res EXCEPT ![k] = Apply(op, nums[k])]]

HofStart ==
    /\ hnumbers \in HofInputs
    /\ hinput = hnumbers
    /\ hop \in HofOperations
    /\ results = <<>>
    /\ hidx = 0
    /\ hpc = "call"

HofFrame ==
    UNCHANGED <<chanVars, closureVars, calcVars, divVars, factVars, runnerVars,
                sliceVars, calculatorVars, deferVars, scopeVars, arrayVars, pvVars, cacheVars>>

\* results := make([]int, len(numbers)), and the range loop begins.
HofMake ==
    /\ hpc = "call"
    /\ results' = MakeInts(Len(hnumbers))
    /\ hidx' = 0
    /\ hpc' = "loop"
    /\ UNCHANGED <<hnumbers, hinput, hop>>
    /\ HofFrame

\* The range loop's next iteration.
HofIterate ==
    /\ hpc = "loop"
    /\ hidx < Len(hnumbers)
    /\ hnumbers' = LoopBody(hnumbers, results, hidx + 1, hop).numbers
    /\ results' = LoopBody(hnumbers, results, hidx + 1, hop).results
    /\ hidx' = hidx + 1
    /\ UNCHANGED <<hinput, hop, hpc>>
    /\ HofFrame

\* The range loop is over: return results.
HofReturn ==
    /\ hpc = "loop"
    /\ hidx = Len(hnumbers)
    /\ hpc' = "returned"
    /\ UNCHANGED <<hnumbers, hinput, hop, results, hidx>>
    /\ HofFrame

(***************************************************************************)
(* functions.GlobalCounter, globalMessage, DemonstrateScope                *)
(***************************************************************************)

\* How many times the model calls DemonstrateScope in one process run.
MaxScopeCalls == 10

\* for i := 0; i < 3; i++
ScopeLoopBound == 3

PackageMessage == "This is a package-level variable"
ShadowMessage == "I'm shadowing the global variable"

\* globalMessage = "..." : an assignment, which writes the package-level
\* variable.
AssignMessage(global, local, v) == [global |-> v, local |-> local]

\* globalMessage := "..." : a short variable declaration, which makes a new
\* local variable of that name and leaves the package-level one alone.
DeclareMessage(global, local, v) == [global |-> global, local |-> v]

\* var ( GlobalCounter int = 0; globalMessage string = "..." ): the package's
\* variables when the process starts.
ScopeStart ==
    /\ GlobalCounter = 0
    /\ globalMessage = PackageMessage
    /\ localMessage = "undeclared"
    /\ loopI = 0
    /\ spc = "idle"
    /\ scalls = 0

ScopeFrame ==
    UNCHANGED <<chanVars, closureVars, calcVars, divVars, factVars, runnerVars,
                sliceVars, calculatorVars, deferVars, hofVars, arrayVars, pvVars, cacheVars>>

\* A step of DemonstrateScope that only prints: from position `from` to `to`.
ScopePrint(from, to) ==
    /\ spc = from
    /\ spc' = to
    /\ UNCHANGED <<GlobalCounter, globalMessage, localMessage, loopI, scalls>>
    /\ ScopeFrame

\* DemonstrateScope() is called.
ScopeCall ==
    /\ scalls < MaxScopeCalls
    /\ ScopePrint("idle", "message")

\* fmt.Printf("Global message: %s\n", globalMessage)
ScopePrintMessage == ScopePrint("message", "before")

\* fmt.Printf("Global counter before: %d\n", GlobalCounter)
ScopePrintBefore == ScopePrint("before", "increment")

\* GlobalCounter++
ScopeIncrement ==
    /\ spc = "increment"
    /\ GlobalCounter' = GlobalCounter + 1
    /\ spc' = "after"
    /\ UNCHANGED <<globalMessage, localMessage, loopI, scalls>>
    /\ ScopeFrame

\* fmt.Printf("Global counter after increment: %d\n", GlobalCounter)
ScopePrintAfter == ScopePrint("after", "shadow")

\* globalMessage := "I'm shadowing the global variable"
ScopeShadow ==
    /\ spc = "shadow"
    /\ globalMessage' = DeclareMessage(globalMessage, localMessage, ShadowMessage).global
    /\ localMessage' = DeclareMessage(globalMessage, localMessage, ShadowMessage).local
    /\ spc' = "local"
    /\ UNCHANGED <<GlobalCounter, loopI, scalls>>
    /\ ScopeFrame

\* fmt.Printf("Local message (shadowing): %s\n", globalMessage)
ScopePrintLocal == ScopePrint("local", "block")

\* { blockVar := ...; fmt.Printf(...); fmt.Printf(...) }, then i := 0
ScopeBlock ==
    /\ spc = "block"
    /\ loopI' = 0
    /\ spc' = "loop"
    /\ UNCHANGED <<GlobalCounter, globalMessage, localMessage, scalls>>
    /\ ScopeFrame

\* for i := 0; i < 3; i++ { loopVar := ...; fmt.Printf(...) }
ScopeLoop ==
    /\ spc = "loop"
    /\ loopI < ScopeLoopBound
    /\ loopI' = loopI + 1
    /\ UNCHANGED <<GlobalCounter, globalMessage, localMessage, spc, scalls>>
    /\ ScopeFrame

\* The loop is over and DemonstrateScope returns: its locals are gone.
ScopeReturn ==
    /\ spc = "loop"
    /\ loopI >= ScopeLoopBound
    /\ localMessage' = "undeclared"
    /\ loopI' = 0
    /\ scalls' = scalls + 1
    /\ spc' = "idle"
    /\ UNCHANGED <<GlobalCounter, globalMessage>>
    /\ ScopeFrame

(***************************************************************************)
(* collections.ArrayBasics, ArrayOperations, modifyArrayCopy,              *)
(* modifyArrayPointer                                                      *)
(***************************************************************************)

\* The length of bigArray, [1000000]int in the source, scaled down.
BigLen == 3

\* The values an element of the caller's array may hold.
ArrayValues == {0, 7, 999}

\* The arrays of bigArray's type within those values; the demonstration's own
\* is the all-zero one.
BigArrays == [1..BigLen -> ArrayValues]

\* a[k] = v, with Go's zero-based index.
SetAt(a, k, v) == [a EXCEPT ![k + 1] = v]

\* a[k], with Go's zero-based index.
At(a, k) == a[k + 1]

\* An array variable that shared its elements with the variable it was copied
\* from would show the write made through the other one.
ArrayByValueAliased(original, copy) == copy

\* What the original array holds after a write to `copy`, a variable or a
\* parameter of array type that was initialised from it: arrays are values,
\* the copy has its own elements.
ArrayByValue(original, copy) == original

\* What the original array holds after a write through a pointer to it, where
\* `pointee` is the array the write produced.
ArrayByPointer(original, pointee) == pointee

NoArg == [kind |-> "none", elems |-> <<>>]

\* ArrayBasics is about to declare primes; bigArray stands for the array the
\* caller of the two helpers holds, before its first element is set.
ArrayStart ==
    /\ primes = <<>>
    /\ copyOfPrimes = <<>>
    /\ bigArray \in BigArrays
    /\ arr = NoArg
    /\ apc = "basics"

ArrayFrame ==
    UNCHANGED <<chanVars, closureVars, calcVars, divVars, factVars, runnerVars,
                sliceVars, calculatorVars, deferVars, hofVars, scopeVars, pvVars, cacheVars>>

\* primes := [5]int{2, 3, 5, 7, 11}
ArrayDeclarePrimes ==
    /\ apc = "basics"
    /\ primes' = <<2, 3, 5, 7, 11>>
    /\ apc' = "assign"
    /\ UNCHANGED <<copyOfPrimes, bigArray, arr>>
    /\ ArrayFrame

\* copyOfPrimes := primes
ArrayAssign ==
    /\ apc = "assign"
    /\ copyOfPrimes' = primes
    /\ apc' = "write"
    /\ UNCHANGED <<primes, bigArray, arr>>
    /\ ArrayFrame

\* copyOfPrimes[0] = 100
ArrayWriteCopy ==
    /\ apc = "write"
    /\ copyOfPrimes' = SetAt(copyOfPrimes, 0, 100)
    /\ primes' = ArrayByValue(primes, copyOfPrimes')
    /\ apc' = "operations"
    /\ UNCHANGED <<bigArray, arr>>
    /\ ArrayFrame

\* bigArray[0] = 42
ArraySetFirst ==
    /\ apc = "operations"
    /\ bigArray' = SetAt(bigArray, 0, 42)
    /\ apc' = "callCopy"
    /\ UNCHANGED <<primes, copyOfPrimes, arr>>
    /\ ArrayFrame

\* modifyArrayCopy(bigArray): the parameter arr is initialised from bigArray.
ArrayCallCopy ==
    /\ apc = "callCopy"
    /\ arr' = [kind |-> "value", elems |-> bigArray]
    /\ apc' = "bodyCopy"
    /\ UNCHANGED <<primes, copyOfPrimes, bigArray>>
    /\ ArrayFrame

\* modifyArrayCopy: arr[0] = 999
modifyArrayCopy ==
    /\ apc = "bodyCopy"
    /\ arr' = [arr EXCEPT !.elems = SetAt(arr.elems, 0, 999)]
    /\ bigArray' = ArrayByValue(bigArray, arr'.elems)
    /\ apc' = "returnCopy"
    /\ UNCHANGED <<primes, copyOfPrimes>>
    /\ ArrayFrame

\* modifyArrayCopy returns; its parameter is gone.
ArrayReturnCopy ==
    /\ apc = "returnCopy"
    /\ arr' = NoArg
    /\ apc' = "callPointer"
    /\ UNCHANGED <<primes, copyOfPrimes, bigArray>>
    /\ ArrayFrame

\* modifyArrayPointer(&bigArray): the parameter arr points to bigArray.
ArrayCallPointer ==
    /\ apc = "callPointer"
    /\ arr' = [kind |-> "pointer", elems |-> <<>>]
    /\ apc' = "bodyPointer"
    /\ UNCHANGED <<primes, copyOfPrimes, bigArray>>
    /\ ArrayFrame

\* modifyArrayPointer: arr[0] = 999
modifyArrayPointer ==
    /\ apc = "bodyPointer"
    /\ arr.kind = "pointer"
    /\ bigArray' = ArrayByPointer(bigArray, SetAt(bigArray, 0, 999))
    /\ apc' = "returnPointer"
    /\ UNCHANGED <<primes, copyOfPrimes, arr>>
    /\ ArrayFrame

\* modifyArrayPointer returns.
ArrayReturnPointer ==
    /\ apc = "returnPointer"
    /\ arr' = NoArg
    /\ apc' = "done"
    /\ UNCHANGED <<primes, copyOfPrimes, bigArray>>
    /\ ArrayFrame

(***************************************************************************)
(* basics.ProcessValue                                                     *)
(***************************************************************************)

\* The values ProcessValue is called with: every int.
PvValues == MinInt..MaxInt

\* switch remainder := value % 3; remainder { case 0 ... case 1 ... case 2 ...
\* default ... }
ProcessValueResult(value) ==
    LET remainder == IntRem(value, 3)
    IN  CASE remainder = 0 -> "Divisible by 3"
          [] remainder = 1 -> "Remainder 1 when divided by 3"
          [] remainder = 2 -> "Remainder 2 when divided by 3"
          [] OTHER -> "Unexpected value"

PvStart == pvalue \in PvValues /\ pret = "" /\ vpc = "call"

PvFrame ==
    UNCHANGED <<chanVars, closureVars, calcVars, divVars, factVars, runnerVars,
                sliceVars, calculatorVars, deferVars, hofVars, scopeVars, arrayVars, cacheVars>>

\* ProcessValue(value) runs and returns.
ProcessValue ==
    /\ vpc = "call"
    /\ pret' = ProcessValueResult(pvalue)
    /\ vpc' = "returned"
    /\ UNCHANGED pvalue
    /\ PvFrame

(***************************************************************************)
(* cmd/04-collections main: the simple cache, addToCache                   *)
(***************************************************************************)

\* maxSize := 3
MaxSize == 3

\* How many addToCache calls the model makes; main makes five.
MaxCacheCalls == 5

CacheKeys == {"user1", "user2", "user3", "user4"}

\* The map holds no entry for a key.
Absent == "<absent>"

\* The calls of main, and one more that adds the first key again.
CacheCalls ==
    { <<"user1", "Alice">>, <<"user2", "Bob">>, <<"user3", "Charlie">>,
      <<"user4", "Dave">>, <<"user2", "Bob Jr.">>, <<"user1", "Alice II">> }

\* addToCache without the loop that drops the key from the order list.
RemoveKeyForgotten(order, key) == order

\* newOrder: the keys of cacheOrder other than key, in their order.
RemoveKey(order, key) == SelectSeq(order, LAMBDA k : k # key)

\* addToCache(key, value) on the map m and the order list order: the map and
\* the list it leaves, and the keys it printed as evicted.
AddToCacheResult(m, order, key, value) ==
    LET appended == Append(RemoveKey(order, key), key)
        stored == [m EXCEPT ![key] = value]
    IN  IF Len(appended) > MaxSize
        THEN LET oldest == appended[1]
             IN  [ order |-> Tail(appended),
                   cache |-> [stored EXCEPT ![oldest] = Absent],
                   evicted |-> <<oldest>> ]
        ELSE [ order |-> appended, cache |-> stored, evicted |-> <<>> ]

\* cache := make(map[string]string); cacheOrder := []string{}
CacheStart ==
    /\ cache = [k \in CacheKeys |-> Absent]
    /\ cacheOrder = <<>>
    /\ evicted = <<>>
    /\ lastAdd = [k \in CacheKeys |-> 0]
    /\ qcalls = 0
    /\ qbefore = <<>>

CacheFrame ==
    UNCHANGED <<chanVars, closureVars, calcVars, divVars, factVars, runnerVars,
                sliceVars, calculatorVars, deferVars, hofVars, scopeVars, arrayVars, pvVars>>

\* One call addToCache(key, value).  lastAdd, qcalls and qbefore are history:
\* the number of the last call that added each key, the number of calls, and
\* the order list before this call.
addToCache ==
    /\ qcalls < MaxCacheCalls
    /\ \E call \in CacheCalls :
          LET r == AddToCacheResult(cache, cacheOrder, call[1], call[2])
          IN  /\ cache' = r.cache
              /\ cacheOrder' = r.order
              /\ evicted' = r.evicted
              /\ lastAdd' = [lastAdd EXCEPT ![call[1]] = qcalls + 1]
    /\ qcalls' = qcalls + 1
    /\ qbefore' = cacheOrder
    /\ CacheFrame

(***************************************************************************)
(* cmd/03-loops main, and the loops of package loops it runs               *)
(***************************************************************************)

\* for v := init; v cmp limit; v += step, with no inner loop.
For(init, cmp, limit, step) ==
    [init |-> init, cmp |-> cmp, limit |-> limit, step |-> step,
     stepFirst |-> FALSE, inner |-> <<>>]

\* for range over n elements (of an array, slice, map or string's runes).  A
\* map is ranged over in an order that varies, not a number that varies.
Range(n) == For(0, "lt", n, 1)

\* for { ... }: no condition; the body ends it with break.
Forever == For(0, "forever", 0, 1)

\* A for { } whose body increments the variable before it tests it.
StepFirst(d) == [d EXCEPT !.stepFirst = TRUE]

\* The loop `d` with the loop `e` as its body.
Nested(d, e) == [d EXCEPT !.inner = <<e>>]

\* The loops of each function of package loops, in program order, and the
\* loops of main's "Additional Examples".  RangeOverChannel is executed as
\* the goroutines Main and Producer instead.
LoopTable ==
    [ BasicForLoop |-> << For(0, "lt", 5, 1), For(0, "lt", 5, 1) >>,
      WhileStyleLoop |-> << For(0, "lt", 5, 1), For(0, "lt", 10, 1) >>,
      InfiniteLoop |-> << Forever, StepFirst(Forever) >>,
      BreakAndContinue |->
          << For(0, "lt", 10, 1), For(0, "lt", 10, 1), For(1, "le", 20, 1) >>,
      RangeOverArraySlice |-> << Range(5), Range(5), Range(5), Range(5) >>,
      RangeOverMap |-> << Range(4), Range(4), Range(4), Range(4) >>,
      RangeOverString |-> << Range(5), Range(12), Range(12), Range(12) >>,
      RangeOverChannel |-> << >>,
      NestedLoops |->
          << Nested(For(1, "le", 3, 1), For(1, "le", 3, 1)),
             Nested(For(0, "lt", 5, 1), For(0, "lt", 5, 1)),
             Nested(Range(3), Range(3)) >>,
      LabeledBreakContinue |->
          << Nested(For(0, "lt", 5, 1), For(0, "lt", 5, 1)),
             Nested(For(0, "lt", 5, 1), For(2, "le", 4, 1)) >>,
      LoopPatterns |->
          << Range(10), Range(3), Range(5), Range(4),
             Nested(For(0, "le", 5, 1), Range(3)) >>,
      LoopPerformanceConsiderations |->
          << For(0, "lt", 5, 1), For(0, "lt", 5, 1), For(0, "lt", 14, 1),
             For(0, "lt", 14, 1), Range(8) >>,
      main |->
          << StepFirst(Forever), For(5, "gt", 0, -1), For(0, "lt", 10, 1),
             Nested(Range(4), For(0, "ltEach", <<3, 11, 11, 5>>, 1)) >> ]

\* The loop condition of d at value v, in the iteration `o` of the loop
\* around it.
Holds(d, v, o) ==
    CASE d.cmp = "lt" -> v < d.limit
      [] d.cmp = "le" -> v <= d.limit
      [] d.cmp = "gt" -> v > d.limit
      [] d.cmp = "ltEach" -> v < d.limit[o + 1]
      [] d.cmp = "forever" -> TRUE

\* A post statement that leaves the loop variable as it is.
NextValueStuck(d, v) == v

\* The post statement (i++, i--, the next element of a range): the loop
\* variable after one more iteration.
NextValue(d, v) == IntAdd(v, d.step)

\* LoopPatterns: fruits; LoopPerformanceConsiderations: numbers.
PatternFruits == <<"apple", "banana", "cherry", "date">>
PerformanceNumbers == <<1, 3, 5, 7, 9, 11, 13, 15>>

\* BreakAndContinue's third loop: sum += i unless i is a multiple of 3.
NewSum(unit, k, v, s) ==
    IF unit = "BreakAndContinue" /\ k = 3 /\ IntRem(v, 3) # 0
    THEN IntAdd(s, v)
    ELSE s

\* How the body of loop k of `unit` ends at loop variable v, inner loop
\* variable w and sum s: "break", "breakOuter", "continueOuter", or "next"
\* when it runs to its end (or to a plain continue).
Outcome(unit, k, v, w, s) ==
    CASE unit = "InfiniteLoop" /\ k = 1 /\ v >= 5 -> "break"
      [] unit = "InfiniteLoop" /\ k = 2 /\ v > 3 -> "break"
      [] unit = "BreakAndContinue" /\ k = 1 /\ v = 5 -> "break"
      [] unit = "BreakAndContinue" /\ k = 3 /\ IntRem(v, 3) # 0 /\ s > 50 -> "break"
      [] unit = "NestedLoops" /\ k = 2 /\ IntMul(v, w) > 6 -> "break"
      [] unit = "LabeledBreakContinue" /\ k = 1 /\ v = 2 /\ w = 2 -> "breakOuter"
      [] unit = "LabeledBreakContinue" /\ k = 2 /\ IntRem(v, w) = 0 /\ v # w
            -> "continueOuter"
      [] unit = "LoopPatterns" /\ k = 4 /\ PatternFruits[v + 1] = "cherry" -> "break"
      [] unit = "LoopPerformanceConsiderations" /\ k = 5
            /\ PerformanceNumbers[v + 1] > 10 -> "break"
      [] unit = "main" /\ k = 1 /\ v >= 3 -> "break"
      [] OTHER -> "next"

\* The statements of main, in order.
Println(text) == [op |-> "print", text |-> text, name |-> "", k |-> 0]
Call(name) == [op |-> "call", text |-> "", name |-> name, k |-> 0]
OwnLoop(k) == [op |-> "loop", text |-> "", name |-> "", k |-> k]

\* One numbered section of main: title, description, the call, an empty line.
Section(title, name) == << Println(title), Println("description"), Call(name), Println("") >>

CompleteLine == "=== Loops Demo Complete ==="

Program ==
    << Println("=== Mastering Golang: Loops and Control Flow ==="),
       Println("Started at"), Println("") >>
    \o Section("1. Basic For Loop:", "BasicForLoop")
    \o Section("2. While-Style Loop:", "WhileStyleLoop")
    \o Section("3. Infinite Loop:", "InfiniteLoop")
    \o Section("4. Break and Continue:", "BreakAndContinue")
    \o Section("5. Range over Arrays and Slices:", "RangeOverArraySlice")
    \o Section("6. Range over Maps:", "RangeOverMap")
    \o Section("7. Range over Strings:", "RangeOverString")
    \o Section("8. Range over Channels:", "RangeOverChannel")
    \o Section("9. Nested Loops:", "NestedLoops")
    \o Section("10. Labeled Break and Continue:", "LabeledBreakContinue")
    \o Section("11. Common Loop Patterns:", "LoopPatterns")
    \o Section("12. Loop Performance Considerations:", "LoopPerformanceConsiderations")
    \o << Println("13. Additional Examples:"),
          Println("Do-While Equivalent:"), Println("description"), OwnLoop(1),
          Println("Countdown Timer:"), OwnLoop(2), Println("Liftoff!"),
          Println("Fibonacci Sequence (first 10 numbers):"), OwnLoop(3),
          Println("Password Validation Example:"), OwnLoop(4),
          Println(CompleteLine), Println("Finished at") >>

\* main is about to print its first line.
RunnerStart ==
    /\ rpc = 1 /\ rcall = "none" /\ rtrace = <<>> /\ lpc = 0
    /\ rloop = "idle" /\ counter = 0 /\ inner = 0 /\ sum = 0

RunnerFrame == UNCHANGED <<closureVars, calcVars, divVars, factVars, laterVars>>

\* The statement main is at.
Statement == Program[rpc]

AtStatement(op) ==
    /\ rpc \in 1..Len(Program)
    /\ rcall = "none"
    /\ rloop = "idle"
    /\ Statement.op = op

\* fmt.Println(...) / fmt.Printf(...) in main.
RunnerPrint ==
    /\ AtStatement("print")
    /\ rpc' = rpc + 1
    /\ rtrace' = IF Statement.text = CompleteLine
                 THEN Append(rtrace, <<"print", CompleteLine>>)
                 ELSE rtrace
    /\ UNCHANGED <<rcall, lpc, rloop, counter, inner, sum>>
    /\ UNCHANGED chanVars
    /\ RunnerFrame

\* loops.F(): main enters F.  RangeOverChannel starts as the goroutine Main.
RunnerCall ==
    /\ AtStatement("call")
    /\ rcall' = Statement.name
    /\ rtrace' = Append(rtrace, <<"call", Statement.name>>)
    /\ IF Statement.name = "RangeOverChannel"
       THEN /\ mpc' = "title" /\ ppc' = "unborn" /\ numbers' = MakeChan
            /\ i' = 0 /\ num' = 0 /\ received' = <<>> /\ out' = <<>>
            /\ lpc' = 0 /\ rloop' = "channel"
       ELSE /\ UNCHANGED chanVars
            /\ lpc' = 1 /\ rloop' = "init"
    /\ UNCHANGED <<rpc, counter, inner, sum>>
    /\ RunnerFrame

\* F returns to main: its last loop is over, or, for RangeOverChannel, Main
\* has printed its last line.
RunnerReturn ==
    /\ rpc \in 1..Len(Program)
    /\ rcall # "none"
    /\ IF rcall = "RangeOverChannel" THEN mpc = "done" ELSE rloop = "end"
    /\ rcall' = "none"
    /\ rtrace' = Append(rtrace, <<"return", rcall>>)
    /\ rloop' = "idle"
    /\ rpc' = rpc + 1
    /\ UNCHANGED <<lpc, counter, inner, sum>>
    /\ UNCHANGED chanVars
    /\ RunnerFrame

\* main reaches one of its own loops.
RunnerOwnLoop ==
    /\ AtStatement("loop")
    /\ lpc' = Statement.k
    /\ rloop' = "init"
    /\ UNCHANGED <<rpc, rcall, rtrace, counter, inner, sum>>
    /\ UNCHANGED chanVars
    /\ RunnerFrame

\* The function whose loops are executing.
Unit == IF rcall = "none" THEN "main" ELSE rcall

\* The loop that is executing.
Loop == LoopTable[Unit][lpc]

InLoop(phase) ==
    /\ rpc \in 1..Len(Program)
    /\ rloop = phase
    /\ lpc \in 1..Len(LoopTable[Unit])

\* The loop is over: on to the function's next loop, or to its end; one of
\* main's own loops is followed by main's next statement.
LoopOver ==
    IF rcall = "none"
    THEN rloop' = "idle" /\ lpc' = 0 /\ rpc' = rpc + 1
    ELSE IF lpc < Len(LoopTable[Unit])
         THEN rloop' = "init" /\ lpc' = lpc + 1 /\ rpc' = rpc
         ELSE rloop' = "end" /\ lpc' = 0 /\ rpc' = rpc

\* The init statement of the loop, and of the variables used in it.
RunnerLoopInit ==
    /\ InLoop("init")
    /\ counter' = Loop.init
    /\ inner' = 0
    /\ sum' = 0
    /\ rloop' = "test"
    /\ UNCHANGED <<rpc, rcall, rtrace, lpc>>
    /\ UNCHANGED chanVars
    /\ RunnerFrame

\* The loop's condition.
RunnerLoopTest ==
    /\ InLoop("test")
    /\ IF Holds(Loop, counter, 0)
       THEN rloop' = "body" /\ UNCHANGED <<rpc, lpc>>
       ELSE LoopOver
    /\ UNCHANGED <<rcall, rtrace, counter, inner, sum>>
    /\ UNCHANGED chanVars
    /\ RunnerFrame

\* The loop's body and post statement; a body that is a loop starts it.
RunnerLoopBody ==
    /\ InLoop("body")
    /\ IF Loop.inner # <<>>
       THEN /\ inner' = Loop.inner[1].init
            /\ rloop' = "innerTest"
            /\ UNCHANGED <<rpc, lpc, counter, sum>>
       ELSE LET v == IF Loop.stepFirst THEN NextValue(Loop, counter) ELSE counter
                s == NewSum(Unit, lpc, v, sum)
            IN  /\ sum' = s
                /\ inner' = inner
                /\ IF Outcome(Unit, lpc, v, 0, s) = "break"
                   THEN counter' = v /\ LoopOver
                   ELSE /\ counter' = IF Loop.stepFirst THEN v ELSE NextValue(Loop, v)
                        /\ rloop' = "test"
                        /\ UNCHANGED <<rpc, lpc>>
    /\ UNCHANGED <<rcall, rtrace>>
    /\ UNCHANGED chanVars
    /\ RunnerFrame

\* The inner loop's condition; when it fails, the outer loop's post statement.
RunnerInnerTest ==
    /\ InLoop("innerTest")
    /\ IF Holds(Loop.inner[1], inner, counter)
       THEN rloop' = "innerBody" /\ UNCHANGED counter
       ELSE rloop' = "test" /\ counter' = NextValue(Loop, counter)
    /\ UNCHANGED <<rpc, rcall, rtrace, lpc, inner, sum>>
    /\ UNCHANGED chanVars
    /\ RunnerFrame

\* The inner loop's body and post statement.
RunnerInnerBody ==
    /\ InLoop("innerBody")
    /\ LET end == Outcome(Unit, lpc, counter, inner, sum)
       IN  CASE end = "next" ->
                  /\ inner' = NextValue(Loop.inner[1], inner)
                  /\ rloop' = "innerTest"
                  /\ UNCHANGED <<rpc, lpc, counter>>
             [] end \in {"break", "continueOuter"} ->
                  /\ counter' = NextValue(Loop, counter)
                  /\ rloop' = "test"
                  /\ UNCHANGED <<rpc, lpc, inner>>
             [] end = "breakOuter" ->
                  /\ LoopOver
                  /\ UNCHANGED <<counter, inner>>
    /\ UNCHANGED <<rcall, rtrace, sum>>
    /\ UNCHANGED chanVars
    /\ RunnerFrame

\* main, on the goroutine that runs it.
Runner ==
    \/ RunnerPrint
    \/ RunnerCall
    \/ RunnerReturn
    \/ RunnerOwnLoop
    \/ RunnerLoopInit
    \/ RunnerLoopTest
    \/ RunnerLoopBody
    \/ RunnerInnerTest
    \/ RunnerInnerBody

(***************************************************************************)
(* collections.SliceOperations: removing and inserting elements            *)
(***************************************************************************)

\* numbers := []int{0, 1, 2, 3, 4, 5, 6, 7, 8, 9}
NumbersLiteral == <<0, 1, 2, 3, 4, 5, 6, 7, 8, 9>>

\* valueToInsert := 999
ValueToInsert == 999

\* The indexes the model removes and inserts at: every index of numbers; the
\* source's own are 5 and 3.
RemoveIndexes == 0..(Len(NumbersLiteral) - 1)
InsertIndexes == 0..Len(NumbersLiteral)

\* A slice is a view of a backing array: the array `a` of the heap, the
\* offset of its first element, its length and its capacity.
NilSlice == [a |-> 0, off |-> 0, len |-> 0, cap |-> 0]

\* The elements of slice s in heap h.
Elements(h, s) == [k \in 1..s.len |-> h[s.a][s.off + k]]

\* s[lo:hi]: the same backing array, from lo, with the capacity that is left.
Reslice(s, lo, hi) ==
    [a |-> s.a, off |-> s.off + lo, len |-> hi - lo, cap |-> s.cap - lo]

\* []int{...}: a new backing array holding elems, and the slice of all of it.
Literal(h, elems) ==
    [ heap |-> Append(h, elems),
      slice |-> [a |-> Len(h) + 1, off |-> 0, len |-> Len(elems),
                 cap |-> Len(elems)] ]

\* append(s, elems...): when the capacity of s suffices, the elements are
\* written into the backing array of s, after its length, and the result
\* shares that array; otherwise they go, after a copy of s, into a new array
\* (whose capacity beyond its length nothing here depends on).
AppendSlice(h, s, elems) ==
    IF s.len + Len(elems) <= s.cap
    THEN [ heap |-> [h EXCEPT ![s.a] =
                        [k \in 1..Len(h[s.a]) |->
                            IF k > s.off + s.len /\ k <= s.off + s.len + Len(elems)
                            THEN elems[k - s.off - s.len]
                            ELSE h[s.a][k]]],
           slice |-> [s EXCEPT !.len = s.len + Len(elems)] ]
    ELSE Literal(h, Elements(h, s) \o elems)

\* SliceOperations is about to declare numbers.
SliceStart ==
    /\ sheap = <<>>
    /\ snumbers = NilSlice
    /\ removed = NilSlice
    /\ inserted = NilSlice
    /\ indexToRemove \in RemoveIndexes
    /\ indexToInsert \in InsertIndexes
    /\ slpc = "declare"

SliceFrame ==
    UNCHANGED <<chanVars, closureVars, calcVars, divVars, factVars, runnerVars,
                calculatorVars, deferVars, hofVars, scopeVars, arrayVars,
                pvVars, cacheVars>>

\* numbers := []int{0, 1, 2, 3, 4, 5, 6, 7, 8, 9}
SliceDeclare ==
    /\ slpc = "declare"
    /\ sheap' = Literal(sheap, NumbersLiteral).heap
    /\ snumbers' = Literal(sheap, NumbersLiteral).slice
    /\ slpc' = "views"
    /\ UNCHANGED <<removed, inserted, indexToRemove, indexToInsert>>
    /\ SliceFrame

\* evens := numbers[0:10:10]; middle := numbers[3:7]; and their Printf: views
\* of numbers that are only read.
SliceViews ==
    /\ slpc = "views"
    /\ slpc' = "remove"
    /\ UNCHANGED <<sheap, snumbers, removed, inserted, indexToRemove, indexToInsert>>
    /\ SliceFrame

\* removed := append(numbers[:indexToRemove], numbers[indexToRemove+1:]...)
SliceRemove ==
    /\ slpc = "remove"
    /\ LET head == Reslice(snumbers, 0, indexToRemove)
           rest == Reslice(snumbers, indexToRemove + 1, snumbers.len)
           r == AppendSlice(sheap, head, Elements(sheap, rest))
       IN  /\ sheap' = r.heap
           /\ removed' = r.slice
    /\ slpc' = "printRemoved"
    /\ UNCHANGED <<snumbers, inserted, indexToRemove, indexToInsert>>
    /\ SliceFrame

\* fmt.Printf("  After removing index %d: %v\n", indexToRemove, removed)
SlicePrintRemoved ==
    /\ slpc = "printRemoved"
    /\ slpc' = "insert"
    /\ UNCHANGED <<sheap, snumbers, removed, inserted, indexToRemove, indexToInsert>>
    /\ SliceFrame

\* inserted := append(numbers[:indexToInsert],
\*     append([]int{valueToInsert}, numbers[indexToInsert:]...)...)
SliceInsert ==
    /\ slpc = "insert"
    /\ LET one == Literal(sheap, <<ValueToInsert>>)
           rest == Reslice(snumbers, indexToInsert, snumbers.len)
           tail == AppendSlice(one.heap, one.slice, Elements(one.heap, rest))
           head == Reslice(snumbers, 0, indexToInsert)
           r == AppendSlice(tail.heap, head, Elements(tail.heap, tail.slice))
       IN  /\ sheap' = r.heap
           /\ inserted' = r.slice
    /\ slpc' = "done"
    /\ UNCHANGED <<snumbers, removed, indexToRemove, indexToInsert>>
    /\ SliceFrame

(***************************************************************************)
(* Specifications                                                          *)
(***************************************************************************)

\* The demonstrations that a specification does not run are at rest.
ClosureIdle == ClosureStart
ChanIdle ==
    /\ mpc = "idle" /\ ppc = "unborn" /\ numbers = MakeChan /\ i = 0 /\ num = 0
    /\ received = <<>> /\ out = <<>>
CalcIdle == argA = 0 /\ argB = 0 /\ argOp = "" /\ cres = "none" /\ cpc = "idle"
DivIdle == dividend = 0 /\ divisor = 0 /\ dres = "none" /\ dpc = "idle"
FactIdle == fn = 0 /\ stack = <<>> /\ fret = 0 /\ fcalls = 0 /\ fpc = "idle"
CalculatorIdle ==
    /\ calc = [LastResult |-> 0] /\ kinit = 0 /\ kret = 0
    /\ klast = [m |-> "none", a |-> 0, b |-> 0]
    /\ kstored = [set |-> FALSE, a |-> 0, b |-> 0]
    /\ ksteps = 0
DeferIdle ==
    filename = "" /\ deferred = <<>> /\ derr = "unset" /\ dout = <<>> /\ xpc = "idle"
HofIdle ==
    /\ hnumbers = <<>> /\ hinput = <<>> /\ hop = "double" /\ results = <<>>
    /\ hidx = 0 /\ hpc = "idle"
ScopeIdle ==
    /\ GlobalCounter = 0
    /\ globalMessage = "This is a package-level variable"
    /\ localMessage = "undeclared" /\ loopI = 0 /\ spc = "off" /\ scalls = 0
ArrayIdle ==
    /\ primes = <<>> /\ copyOfPrimes = <<>> /\ bigArray = <<>>
    /\ arr = [kind |-> "none", elems |-> <<>>] /\ apc = "idle"
RunnerIdle ==
    /\ rpc = 0 /\ rcall = "none" /\ rtrace = <<>> /\ lpc = 0
    /\ rloop = "idle" /\ counter = 0 /\ inner = 0 /\ sum = 0
PvIdle == pvalue = 0 /\ pret = "" /\ vpc = "idle"
\* The cache before any addToCache call.
CacheIdle == CacheStart
SliceIdle ==
    /\ sheap = <<>> /\ snumbers = NilSlice /\ removed = NilSlice
    /\ inserted = NilSlice /\ indexToRemove = 0 /\ indexToInsert = 0
    /\ slpc = "idle"
LaterIdle ==
    /\ CalculatorIdle /\ DeferIdle /\ HofIdle /\ ScopeIdle /\ ArrayIdle
    /\ PvIdle /\ CacheIdle /\ SliceIdle

InitChan ==
    /\ ChanStart /\ ClosureIdle /\ CalcIdle /\ DivIdle /\ FactIdle
    /\ RunnerIdle /\ LaterIdle

NextChan == Main \/ Producer

SpecChan == InitChan /\ [][NextChan]_vars

\* The Go scheduler runs every runnable goroutine eventually.
FairSpecChan ==
    SpecChan /\ WF_vars(Main) /\ WF_vars(Producer)

InitClosure ==
    /\ ChanIdle /\ ClosureStart /\ CalcIdle /\ DivIdle /\ FactIdle
    /\ RunnerIdle /\ LaterIdle

NextClosure == NewCounter \/ CallCounter

SpecClosure == InitClosure /\ [][NextClosure]_vars

InitCalc ==
    /\ ChanIdle /\ ClosureIdle /\ CalcStart /\ DivIdle /\ FactIdle
    /\ RunnerIdle /\ LaterIdle

NextCalc == CalcCall

SpecCalc == InitCalc /\ [][NextCalc]_vars

InitDiv ==
    /\ ChanIdle /\ ClosureIdle /\ CalcIdle /\ DivStart /\ FactIdle
    /\ RunnerIdle /\ LaterIdle

NextDiv == DivCall

SpecDiv == InitDiv /\ [][NextDiv]_vars

InitFact ==
    /\ ChanIdle /\ ClosureIdle /\ CalcIdle /\ DivIdle /\ FactStart
    /\ RunnerIdle /\ LaterIdle

NextFact == FactEnter \/ FactBase \/ FactRecurse \/ FactReturn \/ FactDone

SpecFact == InitFact /\ [][NextFact]_vars

\* A sequential program takes its next step as long as it has one.
FairSpecFact == SpecFact /\ WF_vars(NextFact)

InitCalculator ==
    /\ ChanIdle /\ ClosureIdle /\ CalcIdle /\ DivIdle /\ FactIdle /\ RunnerIdle
    /\ CalculatorStart /\ DeferIdle /\ HofIdle /\ ScopeIdle /\ ArrayIdle
    /\ PvIdle /\ CacheIdle /\ SliceIdle

NextCalculator ==
    CalculatorAdd \/ CalculatorAddAndStore \/ CalculatorGetLastResult

SpecCalculator == InitCalculator /\ [][NextCalculator]_vars

InitDefer ==
    /\ ChanIdle /\ ClosureIdle /\ CalcIdle /\ DivIdle /\ FactIdle /\ RunnerIdle
    /\ CalculatorIdle /\ DeferStart /\ HofIdle /\ ScopeIdle /\ ArrayIdle
    /\ PvIdle /\ CacheIdle /\ SliceIdle

NextDefer ==
    \/ DeferOpen
    \/ DeferFinalCleanup
    \/ DeferClosingFile
    \/ DeferFirstCall
    \/ DeferProcessing
    \/ DeferCheck
    \/ DeferSuccess
    \/ DeferRun
    \/ DeferReturn

SpecDefer == InitDefer /\ [][NextDefer]_vars

InitHof ==
    /\ ChanIdle /\ ClosureIdle /\ CalcIdle /\ DivIdle /\ FactIdle /\ RunnerIdle
    /\ CalculatorIdle /\ DeferIdle /\ HofStart /\ ScopeIdle /\ ArrayIdle
    /\ PvIdle /\ CacheIdle /\ SliceIdle

NextHof == HofMake \/ HofIterate \/ HofReturn

SpecHof == InitHof /\ [][NextHof]_vars

InitScope ==
    /\ ChanIdle /\ ClosureIdle /\ CalcIdle /\ DivIdle /\ FactIdle /\ RunnerIdle
    /\ CalculatorIdle /\ DeferIdle /\ HofIdle /\ ScopeStart /\ ArrayIdle
    /\ PvIdle /\ CacheIdle /\ SliceIdle

NextScope ==
    \/ ScopeCall
    \/ ScopePrintMessage
    \/ ScopePrintBefore
    \/ ScopeIncrement
    \/ ScopePrintAfter
    \/ ScopeShadow
    \/ ScopePrintLocal
    \/ ScopeBlock
    \/ ScopeLoop
    \/ ScopeReturn

SpecScope == InitScope /\ [][NextScope]_vars

InitArrays ==
    /\ ChanIdle /\ ClosureIdle /\ CalcIdle /\ DivIdle /\ FactIdle /\ RunnerIdle
    /\ CalculatorIdle /\ DeferIdle /\ HofIdle /\ ScopeIdle /\ ArrayStart
    /\ PvIdle /\ CacheIdle /\ SliceIdle

NextArrays ==
    \/ ArrayDeclarePrimes
    \/ ArrayAssign
    \/ ArrayWriteCopy
    \/ ArraySetFirst
    \/ ArrayCallCopy
    \/ modifyArrayCopy
    \/ ArrayReturnCopy
    \/ ArrayCallPointer
    \/ modifyArrayPointer
    \/ ArrayReturnPointer

SpecArrays == InitArrays /\ [][NextArrays]_vars

InitPv ==
    /\ ChanIdle /\ ClosureIdle /\ CalcIdle /\ DivIdle /\ FactIdle /\ RunnerIdle
    /\ CalculatorIdle /\ DeferIdle /\ HofIdle /\ ScopeIdle /\ ArrayIdle
    /\ PvStart /\ CacheIdle /\ SliceIdle

NextPv == ProcessValue

SpecPv == InitPv /\ [][NextPv]_vars

InitCache ==
    /\ ChanIdle /\ ClosureIdle /\ CalcIdle /\ DivIdle /\ FactIdle /\ RunnerIdle
    /\ CalculatorIdle /\ DeferIdle /\ HofIdle /\ ScopeIdle /\ ArrayIdle
    /\ PvIdle /\ CacheStart /\ SliceIdle

NextCache == addToCache

SpecCache == InitCache /\ [][NextCache]_vars

InitRunner ==
    /\ ChanIdle /\ ClosureIdle /\ CalcIdle /\ DivIdle /\ FactIdle /\ RunnerStart
    /\ LaterIdle

\* While main is inside RangeOverChannel, the steps are those of Main and of
\* the goroutine it starts.
NextRunner == Runner \/ Main \/ Producer

SpecRunner == InitRunner /\ [][NextRunner]_vars

\* The Go scheduler runs every runnable goroutine eventually.
FairSpecRunner ==
    SpecRunner /\ WF_vars(Runner) /\ WF_vars(Main) /\ WF_vars(Producer)

InitSlice ==
    /\ ChanIdle /\ ClosureIdle /\ CalcIdle /\ DivIdle /\ FactIdle /\ RunnerIdle
    /\ CalculatorIdle /\ DeferIdle /\ HofIdle /\ ScopeIdle /\ ArrayIdle
    /\ PvIdle /\ CacheIdle /\ SliceStart

NextSlice ==
    \/ SliceDeclare
    \/ SliceViews
    \/ SliceRemove
    \/ SlicePrintRemoved
    \/ SliceInsert

SpecSlice == InitSlice /\ [][NextSlice]_vars

(***************************************************************************)
(* Properties of loops.RangeOverChannel                                    *)
(***************************************************************************)

\* The values the producer sends, in the order it sends them: 10, 20, .., 50.
AllSent == [k \in 1..NumSends |-> SentValue(k)]

IsPrefix(s, t) == Len(s) <= Len(t) /\ s = SubSeq(t, 1, Len(s))

\* The range loop has ended: the caller is past `for num := range numbers`.
RangeEnded == mpc \in {"footer", "done"}

\* C1: in every interleaving the range loop receives exactly 10, 20, 30, 40,
\* 50, each once and in the order sent: what it has received so far is always
\* a prefix of the sent sequence, and when the loop has ended it is all of it.
C1_ReceivedInOrder ==
    /\ IsPrefix(received, AllSent)
    /\ RangeEnded => received = <<10, 20, 30, 40, 50>>

\* C1 witness: the loop has ended after receiving five values.
C1_Witness == mpc = "done" /\ Len(received) = 5

\* C2: under fair scheduling RangeOverChannel terminates, and the range loop
\* ends only when the channel is closed, nothing is buffered and all five
\* values have been received.
C2_TerminatesAfterClose ==
    /\ <>(mpc = "done")
    /\ [](RangeEnded =>
            numbers.closed /\ numbers.buf = <<>> /\ Len(received) = NumSends)

\* C2 witness: the range loop has just ended, on a closed and drained channel.
C2_Witness == mpc = "footer" /\ numbers.closed /\ ppc = "end"

\* The first n lines of the output hold the line `l`.
PrintedWithin(l, n) == \E m \in 1..n : out[m] = l

\* C3: every execution prints all five 'Sent: v' lines before 'Receiving
\* values:' and before any 'Received: v' line.
C3_AllSentPrintedFirst ==
    \A j \in 1..Len(out) :
        out[j].k \in {"Receiving", "Received"} =>
            \A k \in 1..NumSends : PrintedWithin(Line("Sent", SentValue(k)), j - 1)

(***************************************************************************)
(* Properties of functions.Closure                                         *)
(***************************************************************************)

\* C4: every counter keeps its own state: the k-th call on a counter returns
\* k, however many calls the other counters have had. (lastRet[c] is the
\* value of the ncalls[c]-th call on counter c.)
C4_KthCallReturnsK ==
    \A c \in 1..Len(cells) : ncalls[c] > 0 => lastRet[c] = ncalls[c]

\* C4 witness: two counters, called a different number of times (the
\* situation of TestClosure: counter1 three times, counter2 twice).
C4_Witness ==
    /\ Len(cells) >= 2
    /\ ncalls[1] = 3 /\ lastRet[1] = 3
    /\ ncalls[2] = 2 /\ lastRet[2] = 2

(***************************************************************************)
(* Properties of functions.CalculateWithError                              *)
(***************************************************************************)

Returned == cpc = "returned"

\* C5: CalculateWithError(a, 0, "divide") returns 0 and a non-nil error with
\* the message "division by zero", for every a, and does not panic.
C5_DivisionByZeroError ==
    Returned /\ argOp = "divide" /\ argB = 0 =>
        /\ ~cres.panic
        /\ cres.result = 0
        /\ ~cres.err.isNil
        /\ cres.err.msg = "division by zero"

\* C5 witness: a / 0 was asked for, with a # 0.
C5_Witness == Returned /\ argOp = "divide" /\ argB = 0 /\ argA = 10

KnownOperations == {"add", "subtract", "multiply", "divide"}

\* C6: for every operation string other than the four known ones, the empty
\* string included, and all a and b, CalculateWithError returns 0 and a
\* non-nil error whose message is "unknown operation: " and then the string.
C6_UnknownOperationError ==
    Returned /\ argOp \notin KnownOperations =>
        /\ ~cres.panic
        /\ cres.result = 0
        /\ ~cres.err.isNil
        /\ Len(cres.err.msg) = 19 + Len(argOp)
        /\ SubSeq(cres.err.msg, 1, 19) = "unknown operation: "
        /\ SubSeq(cres.err.msg, 20, Len(cres.err.msg)) = argOp
        /\ argOp = "modulo" => cres.err.msg = "unknown operation: modulo"
        /\ argOp = "" => cres.err.msg = "unknown operation: "

\* C6 witness: the empty operation string was passed.
C6_Witness == Returned /\ argOp = "" /\ argA = 10 /\ argB = 5

\* The quotient of x by y # 0 truncated toward zero, as a mathematical
\* integer: the q nearest to zero with x = q * y + r, |r| < |y| and r zero or
\* of the sign of x.
TruncQuot(x, y) ==
    CHOOSE q \in (-Abs(x))..Abs(x) :
        LET r == x - q * y
        IN  Abs(r) < Abs(y) /\ (r = 0 \/ (r < 0) = (x < 0))

\* What the operation asks for, as a mathematical integer.
MathResult(a, b, operation) ==
    CASE operation = "add" -> a + b
      [] operation = "subtract" -> a - b
      [] operation = "multiply" -> a * b
      [] operation = "divide" -> TruncQuot(a, b)

\* The calls CalculateWithError can carry out.
Computable(b, operation) ==
    \/ operation \in {"add", "subtract", "multiply"}
    \/ operation = "divide" /\ b # 0

\* C7, as stated: the error is nil exactly for add, subtract, multiply and
\* divide with b # 0, and the result then is a+b, a-b, a*b and the integer
\* quotient a/b.
C7_ExactResult ==
    Returned =>
        /\ ~cres.panic
        /\ cres.err.isNil <=> Computable(argB, argOp)
        /\ cres.err.isNil => cres.result = MathResult(argA, argB, argOp)

\* C7, amended: the error is nil exactly for add, subtract, multiply and
\* divide with b # 0, and the result then is an int congruent to a+b, a-b,
\* a*b and the quotient truncated toward zero modulo 2^IntBits: the value
\* itself when it fits an int, the wrapped-around value when it does not.
C7_ResultModuloIntWidth ==
    Returned =>
        /\ ~cres.panic
        /\ cres.err.isNil <=> Computable(argB, argOp)
        /\ cres.err.isNil =>
            LET m == MathResult(argA, argB, argOp)
            IN  /\ cres.result \in MinInt..MaxInt
                /\ (cres.result - m) % Pow2(IntBits) = 0
                /\ m \in MinInt..MaxInt => cres.result = m

\* C7 witness: a product that does not fit an int was returned wrapped.
C7_Witness ==
    /\ Returned /\ argOp = "multiply" /\ argA = MaxInt /\ argB = 2
    /\ cres.err.isNil /\ cres.result = -2

(***************************************************************************)
(* Properties of functions.FunctionWithMultipleReturns                     *)
(***************************************************************************)

DivReturned == dpc = "returned"

\* C8: FunctionWithMultipleReturns(dividend, 0) returns (0, 0) for every
\* dividend, and does not panic.
C8_ZeroDivisorGivesZeroPair ==
    DivReturned /\ divisor = 0 =>
        ~dres.panic /\ dres.quotient = 0 /\ dres.remainder = 0

\* C8 witness: the tests' case, 10 divided by 0.
C8_Witness == DivReturned /\ divisor = 0 /\ dividend = 10

\* The division law of the claim for one call: dividend = q * divisor + r,
\* |r| < |divisor|, q truncated toward zero, r zero or of the dividend's sign.
DivisionLaw(x, y, q, r) ==
    /\ x = q * y + r
    /\ Abs(r) < Abs(y)
    /\ q = TruncQuot(x, y)
    /\ r = 0 \/ (r < 0) = (x < 0)

\* The pairs the claim names: (17,5) -> (3,2), (3,5) -> (0,3), (-17,5) -> (-3,-2).
NamedPairs ==
    /\ dividend = 17 /\ divisor = 5 => dres.quotient = 3 /\ dres.remainder = 2
    /\ dividend = 3 /\ divisor = 5 => dres.quotient = 0 /\ dres.remainder = 3
    /\ dividend = -17 /\ divisor = 5 => dres.quotient = -3 /\ dres.remainder = -2

\* C9, as stated: for every divisor # 0 the result (q, r) obeys the division
\* law, and the named pairs give the named results.
C9_DivisionLawEverywhere ==
    DivReturned /\ divisor # 0 =>
        /\ ~dres.panic
        /\ DivisionLaw(dividend, divisor, dres.quotient, dres.remainder)
        /\ NamedPairs

\* The one division whose quotient does not fit an int.
Overflows(x, y) == x = MinInt /\ y = -1

\* C9, amended: for every divisor # 0 the result obeys the division law and
\* the named pairs give the named results, except for the smallest int
\* divided by -1, whose quotient overflows: that call returns (MinInt, 0).
C9_DivisionLawUnlessOverflow ==
    DivReturned /\ divisor # 0 =>
        /\ ~dres.panic
        /\ ~Overflows(dividend, divisor) =>
                DivisionLaw(dividend, divisor, dres.quotient, dres.remainder)
        /\ Overflows(dividend, divisor) =>
                dres.quotient = MinInt /\ dres.remainder = 0
        /\ NamedPairs

\* C9 witness: a negative dividend, the tests' (-17, 5).
C9_Witness ==
    /\ DivReturned /\ dividend = -17 /\ divisor = 5
    /\ dres.quotient = -3 /\ dres.remainder = -2

(***************************************************************************)
(* Properties of functions.RecursiveFactorial                              *)
(***************************************************************************)

\* n! for the tested arguments, as the tests list it.
TestedFactorial == <<1, 2, 6, 24, 120, 720, 5040>>

\* n! as the product 1 * 2 * ... * n, built upwards.
RECURSIVE ProductUpTo(_, _, _)
ProductUpTo(k, n, acc) == IF k > n THEN acc ELSE ProductUpTo(k + 1, n, acc * k)
Factorial(n) == ProductUpTo(1, n, 1)

\* C10: RecursiveFactorial(n) terminates; for n >= 0 it returns n! (0 -> 1,
\* 1 -> 1, .., 7 -> 5040) after exactly max(n-1, 0) recursive calls; for
\* n <= 1, negative n included, it returns 1 without recursing.
C10_FactorialTerminatesCorrect ==
    /\ <>(fpc = "done")
    /\ [](fpc = "done" =>
            /\ fn >= 0 => fret = Factorial(fn)
            /\ fn = 0 => fret = 1
            /\ fn \in 1..7 => fret = TestedFactorial[fn]
            /\ fcalls = (IF fn - 1 > 0 THEN fn - 1 ELSE 0)
            /\ fn <= 1 => fret = 1 /\ fcalls = 0)

\* C10 witness: RecursiveFactorial(7) has returned 5040 after six recursive
\* calls.
C10_Witness == fpc = "done" /\ fn = 7 /\ fret = 5040 /\ fcalls = 6

(***************************************************************************)
(* Properties of functions.Calculator                                      *)
(***************************************************************************)

\* C11, as stated: after calc.Add(a, b) the call has returned a + b and
\* calc.LastResult is what it was before the call.
C11_AddReturnsSumKeepsStruct ==
    [][CalculatorAdd =>
        kret' = klast'.a + klast'.b /\ calc'.LastResult = calc.LastResult]_vars

\* C11, amended: after calc.Add(a, b) the call has returned the int a + b,
\* which is the sum when the sum fits an int and the sum wrapped around
\* otherwise, and calc.LastResult is what it was before the call.
C11_AddReturnsIntSumKeepsStruct ==
    [][CalculatorAdd =>
        /\ kret' \in MinInt..MaxInt
        /\ (kret' - (klast'.a + klast'.b)) % Pow2(IntBits) = 0
        /\ calc'.LastResult = calc.LastResult]_vars

\* C11 witness: the tests' calc.Add(5, 3) on a Calculator whose LastResult is
\* 0 returned 8 and left 0.
C11_Witness ==
    /\ klast = [m |-> "Add", a |-> 5, b |-> 3]
    /\ kinit = 0 /\ ksteps = 1
    /\ kret = 8 /\ calc.LastResult = 0

\* r is the int a + b: the sum reduced to the range of int by wraparound.
IsIntSum(r, a, b) ==
    r \in MinInt..MaxInt /\ (r - (a + b)) % Pow2(IntBits) = 0

\* C12, as stated: AddAndStore(a, b) returns a + b and sets LastResult to it;
\* after any sequence of Add and AddAndStore calls LastResult, and what
\* GetLastResult returns, is the sum of the most recent AddAndStore call, or
\* the initial LastResult if there was none.
C12_LastResultIsLastStoredSum ==
    LET expected == IF kstored.set THEN kstored.a + kstored.b ELSE kinit
    IN  /\ calc.LastResult = expected
        /\ klast.m = "GetLastResult" => kret = expected
        /\ klast.m = "AddAndStore" =>
                kret = klast.a + klast.b /\ calc.LastResult = klast.a + klast.b

\* C12, amended: the same, with the sum a + b taken as an int: it is the sum
\* when the sum fits an int and the sum wrapped around otherwise.
C12_LastResultIsLastStoredIntSum ==
    /\ kstored.set => IsIntSum(calc.LastResult, kstored.a, kstored.b)
    /\ ~kstored.set => calc.LastResult = kinit
    /\ klast.m = "GetLastResult" => kret = calc.LastResult
    /\ klast.m = "AddAndStore" =>
            IsIntSum(kret, klast.a, klast.b) /\ calc.LastResult = kret

\* C12 witness: after AddAndStore(10, 7) and one more call, GetLastResult
\* returned 17.
C12_Witness ==
    /\ klast.m = "GetLastResult" /\ ksteps = 3
    /\ kstored = [set |-> TRUE, a |-> 10, b |-> 7]
    /\ kret = 17

(***************************************************************************)
(* Properties of functions.DeferredExecution                               *)
(***************************************************************************)

\* The filenames of the model that hold the substring "error".
NamesWithError ==
    {"error.txt", "error_log.txt", "log_error", "an_error.txt", "terror",
     "errorerror"}

\* C13: DeferredExecution(filename) returns a non-nil error if and only if
\* filename contains the substring "error" ("error.txt" and "error_log.txt"
\* fail, "test.txt" and "data.txt" succeed); otherwise it returns nil.
C13_ErrorIffNameHasError ==
    xpc = "returned" =>
        /\ derr \in {"nil", "error"}
        /\ derr = "error" <=> filename \in NamesWithError
        /\ filename \in {"error.txt", "error_log.txt"} => derr = "error"
        /\ filename \in {"test.txt", "data.txt"} => derr = "nil"

\* C13 witness: a name with "error" not at its start was refused.
C13_Witness == xpc = "returned" /\ filename = "log_error" /\ derr = "error"

\* Everything DeferredExecution(filename) prints, in order.
FullOutput(name) ==
    <<"Opening file: " \o name, "Processing file...">>
    \o (IF name \in NamesWithError THEN <<>> ELSE <<"File processed successfully">>)
    \o <<"1. First deferred call", "2. Closing file", "3. Final cleanup">>

\* C18: on the success path and on the error path the three deferred prints
\* run last registered first ("1. First deferred call", "2. Closing file",
\* "3. Final cleanup"), after "Processing file..." (and after "File processed
\* successfully" when there is no error), and all three have run when the
\* return value reaches the caller.
C18_DeferredRunLastInFirstOut ==
    /\ IsPrefix(dout, FullOutput(filename))
    /\ xpc = "returned" => dout = FullOutput(filename)

\* C18 witness: the error path has returned with all three deferred lines
\* printed.
C18_Witness ==
    /\ xpc = "returned" /\ filename = "error.txt" /\ derr = "error"
    /\ Len(dout) = 5 /\ dout[5] = "3. Final cleanup"

(***************************************************************************)
(* Properties of functions.HigherOrderFunction                             *)
(***************************************************************************)

\* What the tests expect for the slices and operations they pass.
TestsExpect ==
    /\ hinput = <<1, 2, 3, 4, 5>> /\ hop = "double" => results = <<2, 4, 6, 8, 10>>
    /\ hinput = <<1, 2, 3, 4, 5>> /\ hop = "square" => results = <<1, 4, 9, 16, 25>>
    /\ hinput = <<0, 1, 2, 3, 4>> /\ hop = "add one" => results = <<1, 2, 3, 4, 5>>
    /\ hinput = <<1, -2, 3, -4, 5>> /\ hop = "negative" =>
            results = <<-1, 2, -3, 4, -5>>
    /\ hinput = <<>> => results = <<>>

\* C14: HigherOrderFunction(numbers, operation) returns a slice as long as
\* numbers whose element at every index is operation of numbers' element at
\* that index (an empty slice for an empty one), and the elements of numbers
\* are not modified, during the call or after it.
C14_MapsEveryElementKeepsInput ==
    /\ hnumbers = hinput
    /\ hpc = "returned" =>
        /\ Len(results) = Len(hinput)
        /\ \A k \in 1..Len(hinput) : results[k] = Apply(hop, hinput[k])
        /\ TestsExpect

\* C14 witness: the tests' "negative" case has returned.
C14_Witness ==
    /\ hpc = "returned" /\ hop = "negative"
    /\ hinput = <<1, -2, 3, -4, 5>> /\ results = <<-1, 2, -3, 4, -5>>

(***************************************************************************)
(* Properties of functions.DemonstrateScope                                *)
(***************************************************************************)

\* The positions of DemonstrateScope after its GlobalCounter++.
AfterIncrement == {"after", "shadow", "local", "block", "loop"}

\* C15: GlobalCounter is 0 when the process starts and grows by exactly 1 in
\* every DemonstrateScope call, so after n calls it is n; the package-level
\* globalMessage is never modified: the assignment inside DemonstrateScope
\* makes a local variable.
C15_CounterCountsCallsMessageKept ==
    /\ scalls = 0 /\ spc = "idle" => GlobalCounter = 0
    /\ spc \notin AfterIncrement => GlobalCounter = scalls
    /\ spc \in AfterIncrement => GlobalCounter = scalls + 1
    /\ globalMessage = "This is a package-level variable"
    /\ spc \in {"local", "block", "loop"} =>
            localMessage = "I'm shadowing the global variable"

\* C15 witness: the third call has declared its local message.
C15_Witness ==
    /\ spc = "local" /\ scalls = 2 /\ GlobalCounter = 3
    /\ localMessage = "I'm shadowing the global variable"
    /\ globalMessage = "This is a package-level variable"

(***************************************************************************)
(* Properties of collections.ArrayBasics and ArrayOperations               *)
(***************************************************************************)

\* C16: arrays are values. After copyOfPrimes := primes and
\* copyOfPrimes[0] = 100, primes[0] is still 2; bigArray[0] is still 42 while
\* and after modifyArrayCopy runs, and is 999 once modifyArrayPointer has
\* written through the pointer.
C16_ArraysAreValues ==
    /\ apc \notin {"basics", "assign", "write"} =>
            At(primes, 0) = 2 /\ At(copyOfPrimes, 0) = 100
    /\ apc \in {"callCopy", "bodyCopy", "returnCopy", "callPointer", "bodyPointer"} =>
            At(bigArray, 0) = 42
    /\ apc = "returnCopy" => At(arr.elems, 0) = 999
    /\ apc \in {"returnPointer", "done"} => At(bigArray, 0) = 999

\* C16 witness: both helpers have run on an array with a non-zero tail.
C16_Witness ==
    /\ apc = "done"
    /\ At(primes, 0) = 2 /\ At(copyOfPrimes, 0) = 100
    /\ At(bigArray, 0) = 999 /\ At(bigArray, 1) = 7

(***************************************************************************)
(* Properties of basics.ProcessValue                                       *)
(***************************************************************************)

\* C19: for every integer value ProcessValue returns one of the three
\* remainder strings, and never the default branch's "Unexpected value".
\* Violated: value % 3 has the sign of value, so a negative value that is not
\* a multiple of 3 has remainder -1 or -2 and takes the default branch.
C19_DefaultNeverExecutes ==
    vpc = "returned" =>
        /\ pret \in {"Divisible by 3", "Remainder 1 when divided by 3",
                     "Remainder 2 when divided by 3"}
        /\ pret # "Unexpected value"

(***************************************************************************)
(* Properties of the simple cache of cmd/04-collections                    *)
(***************************************************************************)

\* The keys the map holds.
Cached == {k \in CacheKeys : cache[k] # Absent}

\* The key the last addToCache call added: the one with the highest number.
LastKey == CHOOSE k \in CacheKeys : lastAdd[k] = qcalls

\* The last call made the order list longer than maxSize: the list held
\* maxSize keys, none of them the key added.
LastCallOverflowed ==
    /\ Len(qbefore) = MaxSize
    /\ \A j \in 1..Len(qbefore) : qbefore[j] # LastKey

\* C20: when an addToCache call makes the order list longer than maxSize,
\* exactly one entry is evicted, the key at the front of cacheOrder, which is
\* the key whose last addToCache call is the oldest of all keys held; no
\* other call evicts anything.  After the calls user1, user2, user3, user4
\* the evicted key is user1.
C20_EvictsOldestWhenOverMaxSize ==
    qcalls > 0 =>
        /\ LastCallOverflowed =>
              /\ Len(evicted) = 1
              /\ evicted[1] = qbefore[1]
              /\ cache[evicted[1]] = Absent
              /\ lastAdd[evicted[1]] > 0
              /\ \A k \in Cached : lastAdd[evicted[1]] < lastAdd[k]
              /\ Cached = ({qbefore[j] : j \in 1..Len(qbefore)} \cup {LastKey})
                            \ {evicted[1]}
        /\ ~LastCallOverflowed => evicted = <<>>
        /\ Len(cacheOrder) <= MaxSize
        /\ Cached = {cacheOrder[j] : j \in 1..Len(cacheOrder)}
        /\ (/\ qcalls = 4
            /\ lastAdd = [k \in CacheKeys |->
                            CASE k = "user1" -> 1 [] k = "user2" -> 2
                              [] k = "user3" -> 3 [] k = "user4" -> 4])
              => evicted = <<"user1">>

\* C20 witness: main's first four calls have been made and user1 is evicted.
C20_Witness ==
    /\ qcalls = 4
    /\ qbefore = <<"user1", "user2", "user3">>
    /\ cacheOrder = <<"user2", "user3", "user4">>
    /\ evicted = <<"user1">>
    /\ cache["user1"] = Absent /\ cache["user4"] = "Dave"

(***************************************************************************)
(* Properties of cmd/03-loops main                                         *)
(***************************************************************************)

\* The twelve functions in the order of the runner's sections.
DemoOrder ==
    << "BasicForLoop", "WhileStyleLoop", "InfiniteLoop", "BreakAndContinue",
       "RangeOverArraySlice", "RangeOverMap", "RangeOverString",
       "RangeOverChannel", "NestedLoops", "LabeledBreakContinue",
       "LoopPatterns", "LoopPerformanceConsiderations" >>

\* Each function called and returned, in that order, then the final line.
RECURSIVE CallsAndReturns(_)
CallsAndReturns(names) ==
    IF names = <<>>
    THEN << <<"print", "=== Loops Demo Complete ===">> >>
    ELSE << <<"call", Head(names)>>, <<"return", Head(names)>> >>
            \o CallsAndReturns(Tail(names))

\* C17: main calls the twelve functions in the one fixed order, each call
\* returning before the next begins (what has happened so far is always a
\* beginning of that sequence of calls and returns), and every execution
\* reaches the line 'Loops Demo Complete'.
C17_FixedOrderThenComplete ==
    /\ [](IsPrefix(rtrace, CallsAndReturns(DemoOrder)))
    /\ <>(rtrace = CallsAndReturns(DemoOrder))

\* C17 witness: the final line is printed after all twelve calls returned.
C17_Witness ==
    /\ rpc > Len(Program)
    /\ Len(rtrace) = 25
    /\ rtrace[24] = <<"return", "LoopPerformanceConsiderations">>
    /\ rtrace[25] = <<"print", "=== Loops Demo Complete ===">>
    /\ mpc = "done"

(***************************************************************************)
(* Properties of collections.SliceOperations                               *)
(***************************************************************************)

\* C21: removing the element at index 5 makes a new slice and does not alter
\* the elements of numbers, which still holds 0..9 afterwards, so that the
\* insertion of 999 at index 3 works on the original ten elements.
\* Violated: numbers[:5] has capacity 10, so append writes 6, 7, 8, 9 into
\* the backing array of numbers.
C21_RemovalKeepsNumbers ==
    /\ (indexToRemove = 5 /\ slpc \in {"printRemoved", "insert", "done"}) =>
            Elements(sheap, snumbers) = <<0, 1, 2, 3, 4, 5, 6, 7, 8, 9>>
    /\ (indexToRemove = 5 /\ indexToInsert = 3 /\ slpc = "done") =>
            Elements(sheap, inserted) = <<0, 1, 2, 999, 3, 4, 5, 6, 7, 8, 9>>

(***************************************************************************)
(* Properties of the close in loops.RangeOverChannel                       *)
(***************************************************************************)

\* The 'Sent' lines printed so far.
SentLines == SelectSeq(out, LAMBDA l : l.k = "Sent")

\* A step that closes the channel is the producer's close statement, taken
\* after five sends and five 'Sent' lines, on a channel that was open.
CloseIsProducersLast ==
    (numbers'.closed # numbers.closed) =>
        /\ ~numbers.closed /\ numbers'.closed
        /\ ppc = "close" /\ ppc' = "end"
        /\ i = NumSends + 1
        /\ Len(SentLines) = NumSends

\* Nothing is sent on a closed channel: its buffer only shrinks.
NoSendAfterClose ==
    numbers.closed =>
        /\ numbers'.closed
        /\ Len(numbers'.buf) <= Len(numbers.buf)

\* C22: the channel is closed exactly once, by the producer, only after its
\* fifth send, and nothing is sent after the close; when RangeOverChannel
\* returns the producer has executed all its statements (five sends, five
\* 'Sent' lines, the close), so no producer output follows 'Channel closed,
\* range loop ended'.
C22_ClosedOnceProducerDoneAtReturn ==
    /\ [][CloseIsProducersLast /\ NoSendAfterClose]_vars
    /\ [](ppc # "panic")
    /\ [](numbers.closed => ppc = "end")
    /\ [](mpc \in {"footer", "done"} =>
            /\ ppc = "end" /\ numbers.closed
            /\ SentLines = [k \in 1..NumSends |-> Line("Sent", SentValue(k))])
    /\ [](mpc = "done" => out[Len(out)] = Line("Ended", 0))

\* C22 witness: RangeOverChannel has returned, after a run in which the last
\* 'Sent' line came after the first 'Received' line.
C22_Witness ==
    /\ mpc = "done" /\ ppc = "end" /\ numbers.closed
    /\ out[Len(out)] = Line("Ended", 0)
    /\ \E m, n \in 1..Len(out) :
            m < n /\ out[m].k = "Received" /\ out[n] = Line("Sent", 50)

====
